---- MODULE Spec2Model ----
(***************************************************************************)
(* Model of the request pipeline of the Proxmox MCP server:                *)
(*   RateLimiter.waitIfNeeded, ProxmoxClient.executeRequest,               *)
(*   handleResponse, handleRequestError and calculateRetryDelay            *)
(*   (src/src/proxmox-client.ts), with the error classes of errors.ts.     *)
(*                                                                         *)
(* Texts (response bodies, messages) are sequences of one-character or     *)
(* multi-character string tokens, so that trim() and substring() are       *)
(* computed and not assumed.  Times of the rate limiter are ticks of a     *)
(* non-decreasing clock (Date.now()).                                      *)
(*                                                                         *)
(* Specifications:                                                         *)
(*   Spec          two concurrent logical calls on one rate limiter        *)
(*   SpecCall      one logical call under every configuration              *)
(*   SpecExchange  one attempt (fetch outcome to handleResponse) for       *)
(*                 every status, body and rejection                        *)
(*   SpecMonitor   one run of waitForTask (tools/tasks.ts)                 *)
(*   SpecToolCall  the CallTool handler of server.ts with validateArgs     *)
(*   SpecLoading   loadConfig (config.ts), createServer and server.start   *)
(*   SpecLive      Spec with one retry and the fairness of the event loop  *)
(*   SpecMutating  one POST, PUT or DELETE call with its arguments         *)
(*   SpecMonitorLive  SpecMonitor with the fairness of the event loop      *)
(*   SpecListTasks    listTasks (tools/tasks.ts) on a node without tasks   *)
(***************************************************************************)
EXTENDS Integers, Sequences, FiniteSets, TLC

VARIABLES
    config,        \* ProxmoxClient.config: retryAttempts, retryDelay
    clock,         \* Date.now()
    requests,      \* RateLimiter.requests
    pc,            \* position of each logical call in executeRequest
    retryCount,    \* executeRequest's retryCount argument
    wakeAt,        \* expiry of the setTimeout a call sleeps on in waitIfNeeded
    delay,         \* the delay handed to setTimeout by handleRequestError
    result,        \* what get/post/put/delete returned or threw
    admitLog,      \* history: the times at which waitIfNeeded recorded an admission
    nAdmit,        \* history: admissions of the logical call
    nFetch,        \* history: fetch() calls started by the logical call
    nDone,         \* history: fetch() calls of the logical call that have settled
    last,          \* history: what the last settled fetch() of the call was
    onlyTimeouts,  \* history: every settled fetch() of the call was a timeout
    caught,        \* history: the error the catch block of executeRequest got last
    callArgs,      \* endpoint, method and body of each call's executeRequest
    sent,          \* history: what each call has handed to fetch(), in order
    waiters,       \* history: the calls suspended in waitIfNeeded, in arrival order
    overtaken,     \* history: a suspended call was admitted ahead of an earlier one
    exch,          \* one exchange run through lines 112-116 in isolation
    monitor,       \* one run of waitForTask (tools/tasks.ts)
    toolCall,      \* one run of the CallTool handler (server.ts)
    loading        \* one run of loadConfig (config.ts)

vars == <<config, clock, requests, pc, retryCount, wakeAt, delay, result,
          admitLog, nAdmit, nFetch, nDone, last, onlyTimeouts, caught,
          callArgs, sent, waiters, overtaken, exch, monitor, toolCall, loading>>

pipelineVars == <<config, clock, requests, pc, retryCount, wakeAt, delay, result,
                  admitLog, nAdmit, nFetch, nDone, last, onlyTimeouts, caught,
                  callArgs, sent, waiters, overtaken>>

(***************************************************************************)
(* Bounds                                                                  *)
(***************************************************************************)
MaxRequests == 2      \* RateLimiter.maxRequests (constructor argument)
WindowMs == 3         \* RateLimiter.windowMs (constructor argument), in ticks
MaxClock == 6         \* the clock stops advancing here for one logical call
MaxConcurrentClock == 4  \* and here when two logical calls are issued
RandDen == 2          \* Math.random() takes the values k / RandDen, 0 <= k < RandDen
LongExtra == 3        \* the long body is this much longer than the excerpt
MaxConcurrentRetries == 2  \* retryAttempts explored with two concurrent calls
LiveRetries == 1           \* retryAttempts explored when time keeps advancing
MaxToolCalls == 2          \* CallTool requests handled one after the other
MaxMonitorSeconds == 8     \* the monitor's clock stops advancing after this many seconds

(***************************************************************************)
(* Program constants                                                       *)
(***************************************************************************)
MaxRetryAttempts == 5
maxDelay == 30000
ExcerptLen == 200
PollIntervalMs == 2000
MsPerSecond == 1000
MinVmid == 100
MaxVmid == 999999999
MaxCommandLen == 10000
DefaultPort == 8006
DefaultTimeout == 30000
DefaultRetryAttempts == 3
DefaultRetryDelay == 1000

Min(a, b) == IF a <= b THEN a ELSE b

RECURSIVE Pow2(_)
Pow2(n) == IF n = 0 THEN 1 ELSE 2 * Pow2(n - 1)

(***************************************************************************)
(* Texts                                                                   *)
(***************************************************************************)
Whitespace == {" ", "\n", "\t", "\r"}

RECURSIVE TrimStart(_)
TrimStart(s) ==
    IF s = <<>> THEN s
    ELSE IF Head(s) \in Whitespace THEN TrimStart(Tail(s)) ELSE s

RECURSIVE TrimEnd(_)
TrimEnd(s) ==
    IF s = <<>> THEN s
    ELSE IF s[Len(s)] \in Whitespace THEN TrimEnd(SubSeq(s, 1, Len(s) - 1)) ELSE s

\* String.prototype.trim
Trim(s) == TrimEnd(TrimStart(s))

\* String.prototype.substring(0, n)
Substring0(s, n) == SubSeq(s, 1, Min(Len(s), n))

(***************************************************************************)
(* JSON values as JSON.parse produces them                                 *)
(***************************************************************************)
JNull == [tag |-> "null"]
JNum(n) == [tag |-> "number", num |-> n]
JStr(s) == [tag |-> "string", str |-> s]
JArr(items) == [tag |-> "array", items |-> items]
JObj(props) == [tag |-> "object", props |-> props]

\* the value returned for an empty body: the JavaScript null
NoContent == JNull

\* JavaScript truthiness of a parsed value
Truthy(v) ==
    CASE v.tag = "null" -> FALSE
      [] v.tag = "number" -> v.num # 0
      [] v.tag = "string" -> v.str # ""
      [] OTHER -> TRUE

\* typeof v
TypeOf(v) ==
    CASE v.tag \in {"null", "array", "object"} -> "object"
      [] OTHER -> v.tag

\* 'key' in v, for a v with typeof v = 'object' that is not null
HasProp(v, key) ==
    IF v.tag = "object" THEN key \in DOMAIN v.props ELSE FALSE

BodyEmpty == <<>>
BodyBlank == <<" ", "\n">>
BodyEnvelope ==
    <<"{", "\"", "d", "a", "t", "a", "\"", ":", "{", "\"", "v", "e", "r", "s",
      "i", "o", "n", "\"", ":", "\"", "8", ".", "0", "\"", "}", "}">>
BodyEmptyObject == <<"{", "}">>
BodyEnvelopeNull ==
    <<"{", "\"", "d", "a", "t", "a", "\"", ":", "n", "u", "l", "l", "}">>
BodyPlainObject == <<"{", "\"", "x", "\"", ":", "1", "}">>
BodyArray == <<"[", "1", "]">>
BodyNull == <<"n", "u", "l", "l">>
BodyHtml == <<"<", "h", "t", "m", "l", ">">>
BodyLong == [i \in 1..(ExcerptLen + LongExtra) |-> "x"]

\* the task status documents of GET /nodes/{node}/tasks/{upid}/status
BodyTaskRunning ==
    <<"{", "\"data\"", ":", "{", "\"status\"", ":", "\"running\"", "}", "}">>
BodyTaskOK ==
    <<"{", "\"data\"", ":", "{", "\"status\"", ":", "\"stopped\"", ",",
      "\"exitstatus\"", ":", "\"OK\"", "}", "}">>
BodyTaskFailed ==
    <<"{", "\"data\"", ":", "{", "\"status\"", ":", "\"stopped\"", ",",
      "\"exitstatus\"", ":", "\"command failed\"", "}", "}">>

TaskBodies == {BodyTaskRunning, BodyTaskOK, BodyTaskFailed}

\* the answer of GET /nodes/{node}/tasks when the node has no task
BodyEnvelopeEmptyList ==
    <<"{", "\"data\"", ":", "[", "]", "}">>

Bodies ==
    {BodyEmpty, BodyBlank, BodyEnvelope, BodyEmptyObject, BodyEnvelopeNull,
     BodyPlainObject, BodyArray, BodyNull, BodyHtml, BodyLong}

\* JSON.parse on the bodies above: the parsed value, or the SyntaxError's message
JSONParse(text) ==
    CASE text = BodyEnvelope ->
           [ok |-> TRUE, value |-> JObj([data |-> JObj([version |-> JStr("8.0")])])]
      [] text = BodyEmptyObject -> [ok |-> TRUE, value |-> JObj(<<>>)]
      [] text = BodyEnvelopeNull -> [ok |-> TRUE, value |-> JObj([data |-> JNull])]
      [] text = BodyPlainObject -> [ok |-> TRUE, value |-> JObj([x |-> JNum(1)])]
      [] text = BodyArray -> [ok |-> TRUE, value |-> JArr(<<JNum(1)>>)]
      [] text = BodyNull -> [ok |-> TRUE, value |-> JNull]
      [] text = BodyEnvelopeEmptyList ->
           [ok |-> TRUE, value |-> JObj([data |-> JArr(<<>>)])]
      [] text = BodyTaskRunning ->
           [ok |-> TRUE,
            value |-> JObj([data |-> JObj([status |-> JStr("running")])])]
      [] text = BodyTaskOK ->
           [ok |-> TRUE,
            value |-> JObj([data |-> JObj([status |-> JStr("stopped"),
                                           exitstatus |-> JStr("OK")])])]
      [] text = BodyTaskFailed ->
           [ok |-> TRUE,
            value |-> JObj([data |-> JObj([status |-> JStr("stopped"),
                                           exitstatus |-> JStr("command failed")])])]
      [] Trim(text) = <<>> ->
           [ok |-> FALSE, message |-> <<"Unexpected end of JSON input">>]
      [] OTHER ->
           [ok |-> FALSE,
            message |-> <<"Unexpected token ", Head(TrimStart(text)),
                          " in JSON at position 0">>]

(***************************************************************************)
(* Error classes (errors.ts)                                               *)
(***************************************************************************)
ProxmoxConnectionError(message, context) ==
    [name |-> "ProxmoxConnectionError", code |-> "PROXMOX_CONNECTION_ERROR",
     message |-> message, context |-> context]

ProxmoxAuthenticationError(message, context) ==
    [name |-> "ProxmoxAuthenticationError", code |-> "PROXMOX_AUTH_ERROR",
     statusCode |-> 401, message |-> message, context |-> context]

ProxmoxPermissionError(message, context) ==
    [name |-> "ProxmoxPermissionError", code |-> "PROXMOX_PERMISSION_ERROR",
     statusCode |-> 403, message |-> message, context |-> context]

ProxmoxNotFoundError(resource, context) ==
    [name |-> "ProxmoxNotFoundError", code |-> "PROXMOX_NOT_FOUND",
     statusCode |-> 404, message |-> <<"Resource not found: ", resource>>,
     context |-> context]

ProxmoxApiError(message, statusCode, context) ==
    [name |-> "ProxmoxApiError", code |-> "PROXMOX_API_ERROR",
     statusCode |-> statusCode, message |-> message, context |-> context]

\* the error node-fetch rejects with when no response arrives or the body
\* cannot be read
FetchError(type) ==
    [name |-> "FetchError", type |-> type,
     message |-> CASE type = "request-timeout" -> <<"network timeout at: url">>
                   [] type = "body-timeout" ->
                        <<"Response timeout while trying to fetch url">>
                   [] OTHER -> <<"request to url failed, reason: ECONNREFUSED">>]

\* error instanceof Error
InstanceOfError(error) == "message" \in DOMAIN error

Thrown(error) == [threw |-> TRUE, error |-> error]
Returned(value) == [threw |-> FALSE, value |-> value]

(***************************************************************************)
(* Transport outcomes: what fetch(url, options) settles with               *)
(***************************************************************************)
Statuses == {200, 204, 301, 400, 401, 403, 404, 500}

\* Response.statusText
StatusText(status) ==
    CASE status = 200 -> "OK"
      [] status = 204 -> "No Content"
      [] status = 301 -> "Moved Permanently"
      [] status = 400 -> "Bad Request"
      [] status = 401 -> "Unauthorized"
      [] status = 403 -> "Forbidden"
      [] status = 404 -> "Not Found"
      [] OTHER -> "Internal Server Error"

\* Response.ok
Ok(status) == status >= 200 /\ status <= 299

\* readable = FALSE: response.text() rejects (the body stream fails)
Responses ==
    [kind : {"response"}, status : Statuses, text : Bodies, readable : BOOLEAN]

Rejections == [kind : {"rejected"}, type : {"request-timeout", "system"}]

TransportOutcomes == Responses \cup Rejections

\* the outcomes the remote end produces in the pipeline: status 200 with an
\* empty, blank, enveloped and unparseable body, every error status, an
\* unreadable body and both rejections
PipelineBodies == {BodyEmpty, BodyBlank, BodyEnvelope, BodyHtml, BodyLong}

PipelineOutcomes ==
    {t \in Responses :
        \/ t.status = 200 /\ t.readable /\ t.text \in PipelineBodies
        \/ t.status = 200 /\ ~t.readable /\ t.text = BodyEnvelope
        \/ ~Ok(t.status) /\ t.status # 301 /\ t.readable /\ t.text = BodyHtml}
    \cup Rejections

\* the outcomes the remote end produces when two logical calls are issued:
\* a success, a fail-fast error and two retried failures
ConcurrentOutcomes ==
    {t \in PipelineOutcomes :
        \/ t.kind = "rejected" /\ t.type = "request-timeout"
        \/ t.kind = "response" /\ t.readable /\ t.status \in {401, 500}
        \/ t.kind = "response" /\ t.readable /\ t.status = 200
               /\ t.text = BodyEnvelope}

Calls == {"c1", "c2"}

\* the endpoint descriptor each logical call is made with
RequestOf ==
    [c1 |-> [method |-> "GET", endpoint |-> "/version"],
     c2 |-> [method |-> "POST", endpoint |-> "/nodes/pve/qemu/100/status/start"]]

Endpoints == {RequestOf[c].endpoint : c \in Calls}

(***************************************************************************)
(* ProxmoxClient.handleResponse                                            *)
(***************************************************************************)
\* a switch without the 404 case
HandleErrorStatusNo404(response, endpoint) ==
    LET errorData == IF response.readable THEN response.text ELSE <<>>
        errorMessage ==
            <<"Proxmox API error: ", ToString(response.status), " ",
              StatusText(response.status)>>
            \o (IF errorData # <<>> THEN <<" - ">> \o errorData ELSE <<>>)
    IN  CASE response.status = 401 ->
               Thrown(ProxmoxAuthenticationError(
                   <<"Authentication failed. Please check your API token credentials.">>,
                   [endpoint |-> endpoint, statusCode |-> response.status]))
          [] response.status = 403 ->
               Thrown(ProxmoxPermissionError(
                   <<"Permission denied. Your API token does not have sufficient permissions.">>,
                   [endpoint |-> endpoint, statusCode |-> response.status]))
          [] OTHER ->
               Thrown(ProxmoxApiError(errorMessage, response.status,
                   [endpoint |-> endpoint]))

\* the branch for a non-2xx response: the switch on response.status
HandleErrorStatus(response, endpoint) ==
    LET errorData == IF response.readable THEN response.text ELSE <<>>
        errorMessage ==
            <<"Proxmox API error: ", ToString(response.status), " ",
              StatusText(response.status)>>
            \o (IF errorData # <<>> THEN <<" - ">> \o errorData ELSE <<>>)
    IN  CASE response.status = 401 ->
               Thrown(ProxmoxAuthenticationError(
                   <<"Authentication failed. Please check your API token credentials.">>,
                   [endpoint |-> endpoint, statusCode |-> response.status]))
          [] response.status = 403 ->
               Thrown(ProxmoxPermissionError(
                   <<"Permission denied. Your API token does not have sufficient permissions.">>,
                   [endpoint |-> endpoint, statusCode |-> response.status]))
          [] response.status = 404 ->
               Thrown(ProxmoxNotFoundError(endpoint,
                   [statusCode |-> response.status]))
          [] OTHER ->
               Thrown(ProxmoxApiError(errorMessage, response.status,
                   [endpoint |-> endpoint]))

\* an emptiness test that forgets trim()
IsBlankNoTrim(responseText) == responseText = <<>>

\* !responseText || responseText.trim() === ''
IsBlank(responseText) == responseText = <<>> \/ Trim(responseText) = <<>>

\* a normalizer that never strips the envelope
UnwrapNever(data) == data

\* the envelope: data.data when data is an object with a 'data' property
Unwrap(data) ==
    IF Truthy(data) /\ TypeOf(data) = "object" /\ HasProp(data, "data")
    THEN data.props.data
    ELSE data

\* an excerpt that is the whole body
ExcerptWhole(responseText) == responseText

\* responseText.substring(0, 200)
Excerpt(responseText) == Substring0(responseText, ExcerptLen)

HandleResponse(response, endpoint) ==
    IF ~Ok(response.status)
    THEN HandleErrorStatus(response, endpoint)
    ELSE IF ~response.readable
    THEN Thrown(FetchError("body-timeout"))
    ELSE LET responseText == response.text
         IN  IF IsBlank(responseText)
             THEN Returned(NoContent)
             ELSE LET parsed == JSONParse(responseText)
                  IN  IF parsed.ok
                      THEN Returned(Unwrap(parsed.value))
                      ELSE Thrown(ProxmoxApiError(
                               <<"Failed to parse Proxmox API response: ">>
                                   \o parsed.message,
                               500,
                               [endpoint |-> endpoint,
                                responseText |-> Excerpt(responseText)]))

\* a try block that treats the no-content result as a failure
AttemptRejectingNoContent(t, endpoint) ==
    IF t.kind = "rejected"
    THEN Thrown(FetchError(t.type))
    ELSE IF HandleResponse(t, endpoint) = Returned(NoContent)
    THEN Thrown(ProxmoxApiError(<<"Empty response from Proxmox API">>, 500,
                                [endpoint |-> endpoint]))
    ELSE HandleResponse(t, endpoint)

\* the body of executeRequest's try block once fetch() has settled with t
Attempt(t, endpoint) ==
    IF t.kind = "rejected"
    THEN Thrown(FetchError(t.type))
    ELSE HandleResponse(t, endpoint)

(***************************************************************************)
(* ProxmoxClient.calculateRetryDelay                                       *)
(* retryDelay is any positive number (config.ts), kept as num / den.       *)
(***************************************************************************)
\* a backoff without the 30 second cap
BackoffDelayUncapped(rc) ==
    [num |-> config.retryDelay.num * Pow2(rc), den |-> config.retryDelay.den]

\* Math.min(baseDelay * Math.pow(2, rc), maxDelay), as num / den
BackoffDelay(rc) ==
    LET baseDelay == config.retryDelay
        scaled == baseDelay.num * Pow2(rc)
    IN  IF scaled <= maxDelay * baseDelay.den
        THEN [num |-> scaled, den |-> baseDelay.den]
        ELSE [num |-> maxDelay, den |-> 1]

\* k / RandDen is the value of Math.random()
CalculateRetryDelay(rc, k) ==
    LET d == BackoffDelay(rc)
    IN  \* Math.floor(delay + (k / RandDen) * 0.3 * delay)
        (d.num * (10 * RandDen + 3 * k)) \div (d.den * 10 * RandDen)

(***************************************************************************)
(* ProxmoxClient.handleRequestError: what it does with a caught error      *)
(***************************************************************************)
\* the give-up branch of handleRequestError
ConnectionErrorFor(error, endpoint) ==
    IF InstanceOfError(error)
    THEN [do |-> "throw",
          error |-> ProxmoxConnectionError(
              <<"Failed to connect to Proxmox after ",
                ToString(config.retryAttempts), " attempts: ">> \o error.message,
              [endpoint |-> endpoint, originalError |-> error.message])]
    ELSE [do |-> "throw",
          error |-> ProxmoxConnectionError(
              <<"Failed to connect to Proxmox after ",
                ToString(config.retryAttempts), " attempts">>,
              [endpoint |-> endpoint])]

\* a handler that retries authentication and permission errors too
HandleRequestErrorRetryAll(error, endpoint, rc, k) ==
    IF rc < config.retryAttempts
    THEN [do |-> "retry", delay |-> CalculateRetryDelay(rc, k)]
    ELSE ConnectionErrorFor(error, endpoint)

\* a handler that counts the first attempt against retryAttempts
HandleRequestErrorOneLess(error, endpoint, rc, k) ==
    IF error.name \in {"ProxmoxAuthenticationError", "ProxmoxPermissionError"}
    THEN [do |-> "throw", error |-> error]
    ELSE IF rc + 1 < config.retryAttempts
    THEN [do |-> "retry", delay |-> CalculateRetryDelay(rc, k)]
    ELSE ConnectionErrorFor(error, endpoint)

\* a handler that also gives up at once on a 404
HandleRequestErrorNotFoundFast(error, endpoint, rc, k) ==
    IF error.name \in {"ProxmoxAuthenticationError", "ProxmoxPermissionError",
                       "ProxmoxNotFoundError"}
    THEN [do |-> "throw", error |-> error]
    ELSE IF rc < config.retryAttempts
    THEN [do |-> "retry", delay |-> CalculateRetryDelay(rc, k)]
    ELSE ConnectionErrorFor(error, endpoint)

\* a handler that grants one retry more than retryAttempts
HandleRequestErrorOneMore(error, endpoint, rc, k) ==
    IF error.name \in {"ProxmoxAuthenticationError", "ProxmoxPermissionError"}
    THEN [do |-> "throw", error |-> error]
    ELSE IF rc <= config.retryAttempts
    THEN [do |-> "retry", delay |-> CalculateRetryDelay(rc, k)]
    ELSE ConnectionErrorFor(error, endpoint)

HandleRequestError(error, endpoint, rc, k) ==
    IF error.name \in {"ProxmoxAuthenticationError", "ProxmoxPermissionError"}
    THEN [do |-> "throw", error |-> error]
    ELSE IF rc < config.retryAttempts
    THEN [do |-> "retry", delay |-> CalculateRetryDelay(rc, k)]
    ELSE ConnectionErrorFor(error, endpoint)

(***************************************************************************)
(* Configuration (config.ts, configSchema): retryAttempts is an integer    *)
(* in 0..5, retryDelay any positive number                                 *)
(***************************************************************************)
RetryDelays == {[num |-> 1000, den |-> 1], [num |-> 5001, den |-> 2]}

Configs == [retryAttempts : 0..MaxRetryAttempts, retryDelay : RetryDelays]

\* the configurations explored with two concurrent logical calls
ConcurrentConfigs ==
    {cfg \in Configs : cfg.retryAttempts <= MaxConcurrentRetries
                        /\ cfg.retryDelay.den = 1}

(***************************************************************************)
(* RateLimiter.waitIfNeeded                                                *)
(***************************************************************************)
\* a limiter that never drops an entry
RetainedUnpruned(now) == requests

\* this.requests.filter((time) => now - time < this.windowMs)
Retained(now) == SelectSeq(requests, LAMBDA time : now - time < WindowMs)

\* a limiter that lets one request too many into the window
WindowFullOffByOne(kept) == Len(kept) > MaxRequests

\* this.requests.length >= this.maxRequests
WindowFull(kept) == Len(kept) >= MaxRequests

\* a limiter that never sleeps
WaitTimePositiveNever(kept, now) == FALSE

\* waitTime > 0; with an empty list requests[0] is undefined, waitTime is NaN
\* and the comparison is false
WaitTimePositive(kept, now) ==
    kept # <<>> /\ WindowMs - (now - kept[1]) > 0

\* call c has been suspended in its current call of waitIfNeeded
Suspended(c) == \E i \in DOMAIN waiters : waiters[i] = c

\* the suspended calls that entered waitIfNeeded before call c did
ArrivedBefore(c) ==
    {waiters[i] : i \in {j \in DOMAIN waiters :
                            /\ waiters[j] # c
                            /\ \A k \in DOMAIN waiters : waiters[k] = c => j < k}}

\* one evaluation of waitIfNeeded by call c: prune, then either go to sleep
\* until the oldest entry leaves the window or record the admission
WaitIfNeeded(c) ==
    LET now == clock
        kept == Retained(now)
    IN  IF WindowFull(kept) /\ WaitTimePositive(kept, now)
        THEN /\ requests' = kept
             /\ pc' = [pc EXCEPT ![c] = "limiterWait"]
             /\ wakeAt' = [wakeAt EXCEPT ![c] = now + (WindowMs - (now - kept[1]))]
             /\ waiters' = IF Suspended(c) THEN waiters ELSE Append(waiters, c)
             /\ UNCHANGED <<admitLog, nAdmit, overtaken>>
        ELSE /\ requests' = Append(kept, now)
             /\ pc' = [pc EXCEPT ![c] = "admitted"]
             /\ wakeAt' = [wakeAt EXCEPT ![c] = 0]
             /\ admitLog' = Append(admitLog, now)
             /\ nAdmit' = [nAdmit EXCEPT ![c] = @ + 1]
             /\ waiters' = SelectSeq(waiters, LAMBDA w : w # c)
             /\ overtaken' = (overtaken \/ (Suspended(c) /\ ArrivedBefore(c) # {}))

(***************************************************************************)
(* History: what a settled fetch() was, told from the exchange alone       *)
(***************************************************************************)
Digest(t) ==
    IF t.kind = "rejected"
    THEN (IF t.type = "request-timeout" THEN "timeout" ELSE "network")
    ELSE CASE t.status = 401 -> "401"
           [] t.status = 403 -> "403"
           [] t.status = 404 -> "404"
           [] t.status < 200 \/ t.status > 299 -> "status"
           [] ~t.readable -> "unreadable"
           [] \A i \in 1..Len(t.text) : t.text[i] \in Whitespace -> "empty"
           [] JSONParse(t.text).ok -> "json"
           [] OTHER -> "badjson"

NoResult == [pending |-> TRUE]
NoExchange == [pending |-> TRUE]
NoError == [pending |-> TRUE]
NotRun == [pending |-> TRUE]

(***************************************************************************)
(* The arguments of executeRequest and what it hands to fetch()            *)
(***************************************************************************)
\* the value of a parameter that was not passed
JUndefined == [tag |-> "undefined"]

\* the body of proxmox_execute_vm_command: { command: 'ls' }
CommandBody == JObj([command |-> JStr("ls")])

\* the configUpdates of proxmox_update_vm_config: { memory: 2048 }
ConfigUpdates == JObj([memory |-> JNum(2048)])

\* JSON.stringify on the bodies above
JSONStringify(value) ==
    CASE value = CommandBody ->
           <<"{", "\"command\"", ":", "\"ls\"", "}">>
      [] value = ConfigUpdates ->
           <<"{", "\"memory\"", ":", "2048", "}">>
      [] OTHER -> <<"null">>

\* executeRequest(endpoint, method, body)
ArgsOf(request, body) ==
    [endpoint |-> request.endpoint, method |-> request.method, body |-> body]

\* options of fetch(url, options): method, and body only if (body)
FetchOptions(a) ==
    IF a.body # JUndefined /\ Truthy(a.body)
    THEN [endpoint |-> a.endpoint, method |-> a.method,
          body |-> JSONStringify(a.body)]
    ELSE [endpoint |-> a.endpoint, method |-> a.method]

\* a retry that calls executeRequest(endpoint) and so takes the defaults
RetryArgsDefaults(a) ==
    [endpoint |-> a.endpoint, method |-> "GET", body |-> JUndefined]

\* this.executeRequest(endpoint, method, body, retryCount + 1)
RetryArgs(a) ==
    [endpoint |-> a.endpoint, method |-> a.method, body |-> a.body]

(***************************************************************************)
(* The pipeline                                                            *)
(***************************************************************************)
\* the dispatcher issues both logical calls
Init ==
    /\ config \in ConcurrentConfigs
    /\ clock = 0
    /\ requests = <<>>
    /\ pc = [c \in Calls |-> "idle"]
    /\ retryCount = [c \in Calls |-> 0]
    /\ wakeAt = [c \in Calls |-> 0]
    /\ delay = [c \in Calls |-> 0]
    /\ result = [c \in Calls |-> NoResult]
    /\ admitLog = <<>>
    /\ nAdmit = [c \in Calls |-> 0]
    /\ nFetch = [c \in Calls |-> 0]
    /\ nDone = [c \in Calls |-> 0]
    /\ last = [c \in Calls |-> "none"]
    /\ onlyTimeouts = [c \in Calls |-> TRUE]
    /\ caught = [c \in Calls |-> NoError]
    /\ callArgs = [c \in Calls |-> ArgsOf(RequestOf[c], JUndefined)]
    /\ sent = [c \in Calls |-> <<>>]
    /\ waiters = <<>>
    /\ overtaken = FALSE
    /\ exch = NoExchange
    /\ monitor = NotRun
    /\ toolCall = NotRun
    /\ loading = NotRun

\* one logical call is explored further than two
Solo == \E c \in Calls : pc[c] = "unused"

\* the last tick of the clock that is explored
Horizon == IF Solo THEN MaxClock ELSE MaxConcurrentClock

\* what fetch() may settle with
OutcomesExplored == IF Solo THEN PipelineOutcomes ELSE ConcurrentOutcomes

\* get/post/put/delete: executeRequest(endpoint, method, body) with
\* retryCount = 0, run up to the first suspension inside waitIfNeeded
Start(c) ==
    /\ pc[c] = "idle"
    /\ retryCount' = [retryCount EXCEPT ![c] = 0]
    /\ WaitIfNeeded(c)
    /\ UNCHANGED <<config, clock, delay, result, nFetch, nDone, last,
                   onlyTimeouts, caught, callArgs, sent, exch,
                   monitor, toolCall, loading>>

\* a setTimeout whose callback never runs
LimiterWakeNever(c) ==
    /\ pc[c] = "limiterWait"
    /\ FALSE
    /\ UNCHANGED vars

\* the setTimeout of waitIfNeeded fires (not before its expiry):
\* return this.waitIfNeeded()
LimiterWake(c) ==
    /\ pc[c] = "limiterWait"
    /\ clock >= wakeAt[c]
    /\ WaitIfNeeded(c)
    /\ UNCHANGED <<config, clock, retryCount, delay, result, nFetch, nDone,
                   last, onlyTimeouts, caught, callArgs, sent, exch,
                   monitor, toolCall, loading>>

\* await this.rateLimiter.waitIfNeeded() resumes: fetch(url, options)
Fetch(c) ==
    /\ pc[c] = "admitted"
    /\ pc' = [pc EXCEPT ![c] = "inflight"]
    /\ nFetch' = [nFetch EXCEPT ![c] = @ + 1]
    /\ sent' = [sent EXCEPT ![c] = Append(@, FetchOptions(callArgs[c]))]
    /\ UNCHANGED <<config, clock, requests, retryCount, wakeAt, delay, result,
                   admitLog, nAdmit, nDone, last, onlyTimeouts, caught,
                   callArgs, waiters, overtaken, exch, monitor, toolCall, loading>>

\* fetch() settles with t: handleResponse, and on a throw handleRequestError
\* up to its setTimeout or its throw
Settle(c) ==
    /\ pc[c] = "inflight"
    /\ \E t \in OutcomesExplored, k \in 0..(RandDen - 1) :
         LET endpoint == callArgs[c].endpoint
             out == Attempt(t, endpoint)
             h == HandleRequestError(out.error, endpoint, retryCount[c], k)
         IN  /\ IF ~out.threw
                THEN /\ k = 0
                     /\ pc' = [pc EXCEPT ![c] = "returned"]
                     /\ result' = [result EXCEPT ![c] = out]
                     /\ UNCHANGED delay
                ELSE IF h.do = "throw"
                THEN /\ k = 0
                     /\ pc' = [pc EXCEPT ![c] = "threw"]
                     /\ result' = [result EXCEPT ![c] = Thrown(h.error)]
                     /\ UNCHANGED delay
                ELSE /\ pc' = [pc EXCEPT ![c] = "backoff"]
                     /\ delay' = [delay EXCEPT ![c] = h.delay]
                     /\ UNCHANGED result
             /\ nDone' = [nDone EXCEPT ![c] = @ + 1]
             /\ last' = [last EXCEPT ![c] = Digest(t)]
             /\ onlyTimeouts' =
                    [onlyTimeouts EXCEPT ![c] = @ /\ Digest(t) = "timeout"]
             /\ caught' =
                    [caught EXCEPT ![c] = IF out.threw THEN out.error ELSE NoError]
    /\ UNCHANGED <<config, clock, requests, retryCount, wakeAt, admitLog,
                   nAdmit, nFetch, callArgs, sent, waiters, overtaken, exch,
                   monitor, toolCall, loading>>

\* a retry that goes straight to fetch() without asking the rate limiter
BackoffWakeNoLimiter(c) ==
    /\ pc[c] = "backoff"
    /\ retryCount' = [retryCount EXCEPT ![c] = @ + 1]
    /\ delay' = [delay EXCEPT ![c] = 0]
    /\ pc' = [pc EXCEPT ![c] = "admitted"]
    /\ callArgs' = [callArgs EXCEPT ![c] = RetryArgs(@)]
    /\ UNCHANGED <<config, clock, requests, wakeAt, admitLog, nAdmit, result,
                   nFetch, nDone, last, onlyTimeouts, caught, sent, waiters,
                   overtaken, exch, monitor, toolCall, loading>>

\* the setTimeout of handleRequestError fires:
\* this.executeRequest(endpoint, method, body, retryCount + 1)
BackoffWake(c) ==
    /\ pc[c] = "backoff"
    /\ retryCount' = [retryCount EXCEPT ![c] = @ + 1]
    /\ delay' = [delay EXCEPT ![c] = 0]
    /\ callArgs' = [callArgs EXCEPT ![c] = RetryArgs(@)]
    /\ WaitIfNeeded(c)
    /\ UNCHANGED <<config, clock, result, nFetch, nDone, last, onlyTimeouts,
                   caught, sent, exch, monitor, toolCall, loading>>

\* time passes
Tick ==
    /\ clock < Horizon
    /\ clock' = clock + 1
    /\ UNCHANGED <<config, requests, pc, retryCount, wakeAt, delay, result,
                   admitLog, nAdmit, nFetch, nDone, last, onlyTimeouts, caught,
                   callArgs, sent, waiters, overtaken, exch, monitor, toolCall, loading>>

Next ==
    \/ \E c \in Calls : Start(c)
    \/ \E c \in Calls : LimiterWake(c)
    \/ \E c \in Calls : Fetch(c)
    \/ \E c \in Calls : Settle(c)
    \/ \E c \in Calls : BackoffWake(c)
    \/ Tick

Spec == Init /\ [][Next]_vars

\* one logical call, under every configuration
InitCall ==
    /\ config \in Configs
    /\ clock = 0
    /\ requests = <<>>
    /\ pc = [c \in Calls |-> IF c = "c1" THEN "idle" ELSE "unused"]
    /\ retryCount = [c \in Calls |-> 0]
    /\ wakeAt = [c \in Calls |-> 0]
    /\ delay = [c \in Calls |-> 0]
    /\ result = [c \in Calls |-> NoResult]
    /\ admitLog = <<>>
    /\ nAdmit = [c \in Calls |-> 0]
    /\ nFetch = [c \in Calls |-> 0]
    /\ nDone = [c \in Calls |-> 0]
    /\ last = [c \in Calls |-> "none"]
    /\ onlyTimeouts = [c \in Calls |-> TRUE]
    /\ caught = [c \in Calls |-> NoError]
    /\ callArgs = [c \in Calls |-> ArgsOf(RequestOf[c], JUndefined)]
    /\ sent = [c \in Calls |-> <<>>]
    /\ waiters = <<>>
    /\ overtaken = FALSE
    /\ exch = NoExchange
    /\ monitor = NotRun
    /\ toolCall = NotRun
    /\ loading = NotRun

SpecCall == InitCall /\ [][Next]_vars

(***************************************************************************)
(* Two logical calls with time that keeps advancing: past the horizon the  *)
(* clock moves only while a setTimeout of waitIfNeeded is pending, and     *)
(* every fetch() settles and every timer fires                             *)
(***************************************************************************)
\* time passes while a call sleeps in waitIfNeeded
TickWaiting ==
    /\ clock >= Horizon
    /\ \E c \in Calls : pc[c] = "limiterWait" /\ clock < wakeAt[c]
    /\ clock' = clock + 1
    /\ UNCHANGED <<config, requests, pc, retryCount, wakeAt, delay, result,
                   admitLog, nAdmit, nFetch, nDone, last, onlyTimeouts, caught,
                   callArgs, sent, waiters, overtaken, exch, monitor, toolCall, loading>>

NextLive ==
    \/ Next
    \/ TickWaiting

\* a step of the program: a continuation of one of the calls runs
ProgramStep ==
    \E c \in Calls :
        Start(c) \/ LimiterWake(c) \/ Fetch(c) \/ Settle(c) \/ BackoffWake(c)

\* the event loop does not stop while a continuation is ready or a fetch()
\* is pending (options.timeout bounds every fetch), and time advances
Fairness ==
    /\ WF_vars(ProgramStep)
    /\ WF_vars(Tick \/ TickWaiting)

\* the dispatcher issues both logical calls on a client that retries
\* LiveRetries times
InitLive ==
    /\ Init
    /\ config.retryAttempts = LiveRetries

SpecLive == InitLive /\ [][NextLive]_vars /\ Fairness

(***************************************************************************)
(* One logical call that changes something: post, put and delete as the    *)
(* tools call them                                                         *)
(***************************************************************************)
\* startVM, executeVMCommand, updateVMConfig and stopTask
MutatingCalls ==
    {ArgsOf([method |-> "POST",
             endpoint |-> "/nodes/pve/qemu/100/status/start"], JUndefined),
     ArgsOf([method |-> "POST",
             endpoint |-> "/nodes/pve/qemu/100/agent/exec"], CommandBody),
     ArgsOf([method |-> "PUT",
             endpoint |-> "/nodes/pve/qemu/100/config"], ConfigUpdates),
     ArgsOf([method |-> "DELETE",
             endpoint |-> "/nodes/pve/tasks/UPID%3Apve%3A0001A2B3%3Aqmstart%3A100%3Aroot%40pam%3A"],
            JUndefined)}

\* one of them is about to be made on a client with the default retry
\* settings
InitMutating ==
    /\ config = [retryAttempts |-> DefaultRetryAttempts,
                 retryDelay |-> [num |-> DefaultRetryDelay, den |-> 1]]
    /\ clock = 0
    /\ requests = <<>>
    /\ pc = [c \in Calls |-> IF c = "c2" THEN "idle" ELSE "unused"]
    /\ retryCount = [c \in Calls |-> 0]
    /\ wakeAt = [c \in Calls |-> 0]
    /\ delay = [c \in Calls |-> 0]
    /\ result = [c \in Calls |-> NoResult]
    /\ admitLog = <<>>
    /\ nAdmit = [c \in Calls |-> 0]
    /\ nFetch = [c \in Calls |-> 0]
    /\ nDone = [c \in Calls |-> 0]
    /\ last = [c \in Calls |-> "none"]
    /\ onlyTimeouts = [c \in Calls |-> TRUE]
    /\ caught = [c \in Calls |-> NoError]
    /\ \E a \in MutatingCalls :
          callArgs = [c \in Calls |-> IF c = "c2" THEN a
                                      ELSE ArgsOf(RequestOf[c], JUndefined)]
    /\ sent = [c \in Calls |-> <<>>]
    /\ waiters = <<>>
    /\ overtaken = FALSE
    /\ exch = NoExchange
    /\ monitor = NotRun
    /\ toolCall = NotRun
    /\ loading = NotRun

SpecMutating == InitMutating /\ [][Next]_vars

(***************************************************************************)
(* One exchange through lines 112-116 of executeRequest, for every         *)
(* transport outcome                                                       *)
(***************************************************************************)
InitExchange ==
    /\ InitCall
    /\ config = [retryAttempts |-> 3, retryDelay |-> [num |-> 1000, den |-> 1]]

Exchange ==
    /\ \E t \in TransportOutcomes, endpoint \in Endpoints :
         exch' = [transport |-> t, endpoint |-> endpoint,
                  out |-> Attempt(t, endpoint)]
    /\ UNCHANGED pipelineVars
    /\ UNCHANGED <<monitor, toolCall, loading>>

NextExchange == Exchange

SpecExchange == InitExchange /\ [][NextExchange]_vars

(***************************************************************************)
(* waitForTask (tools/tasks.ts)                                            *)
(* Times of the monitor are milliseconds of Date.now(), observed at whole  *)
(* seconds.                                                                *)
(***************************************************************************)
\* encodeURIComponent on the characters a UPID is made of
EncodeURIComponent(text) ==
    [i \in 1..Len(text) |->
        CASE text[i] = ":" -> "%3A"
          [] text[i] = "@" -> "%40"
          [] text[i] = "/" -> "%2F"
          [] OTHER -> text[i]]

\* `/nodes/${node}/tasks/${encodeURIComponent(upid)}/status`
StatusEndpoint(node, upid) ==
    <<"/nodes/", node, "/tasks/">> \o EncodeURIComponent(upid) \o <<"/status">>

\* `/nodes/${node}/tasks/${encodeURIComponent(upid)}`, the endpoint of stopTask
TaskEndpoint(node, upid) ==
    <<"/nodes/", node, "/tasks/">> \o EncodeURIComponent(upid)

\* what the last fetch() of one client.get may settle with while a task is
\* polled: the three task documents, an empty body, 401, 403, 500 and a
\* timeout
MonitorOutcomes ==
    {t \in [kind : {"response"}, status : {200}, text : TaskBodies \cup {BodyEmpty},
            readable : {TRUE}] : TRUE}
    \cup {t \in Responses : t.status \in {401, 403, 500} /\ t.readable /\ t.text = BodyHtml}
    \cup {t \in Rejections : t.type = "request-timeout"}

\* client.get(endpoint) as its caller sees it: what executeRequest returns or
\* throws when the last fetch() of the logical call settles with t
ClientGet(t, endpoint) ==
    LET out == Attempt(t, endpoint)
    IN  IF ~out.threw THEN out
        ELSE Thrown(HandleRequestError(out.error, endpoint,
                                       config.retryAttempts, 0).error)

\* the TypeError of reading a property of null
TypeErrorOfNull(property) ==
    [name |-> "TypeError",
     message |-> <<"Cannot read properties of null (reading '", property, "')">>]

\* new Error(message)
PlainError(message) == [name |-> "Error", message |-> message]

\* status.status !== 'running', for a status that is not null
NotRunning(status) ==
    ~(HasProp(status, "status") /\ status.props.status = JStr("running"))

\* a comparison that already gives up at exactly maxWaitSeconds
ElapsedExceedsInclusive(now, startTime, maxWaitSeconds) ==
    now - startTime >= maxWaitSeconds * MsPerSecond

\* (Date.now() - startTime) / 1000 > maxWaitSeconds
ElapsedExceeds(now, startTime, maxWaitSeconds) ==
    now - startTime > maxWaitSeconds * MsPerSecond

\* a give-up that also sends the stop request of stopTask
GiveUpStoppingTask(m) ==
    [m EXCEPT !.pc = "threw",
              !.requests = Append(@, [method |-> "DELETE",
                                      endpoint |-> TaskEndpoint(m.node, m.upid),
                                      at |-> m.now]),
              !.result = Thrown(PlainError(
                  <<"Task did not complete within ", ToString(m.maxWaitSeconds),
                    " seconds">>))]

\* throw new Error(`Task did not complete within ${maxWaitSeconds} seconds`)
GiveUp(m) ==
    [m EXCEPT !.pc = "threw",
              !.result = Thrown(PlainError(
                  <<"Task did not complete within ", ToString(m.maxWaitSeconds),
                    " seconds">>))]

\* a loop body that looks at the elapsed time before it looks at the status
AfterPollTimeoutFirst(m, out) ==
    LET n == [m EXCEPT !.polled = Append(@, out)]
    IN  IF out.threw
        THEN [n EXCEPT !.pc = "threw", !.result = out]
        ELSE IF ElapsedExceeds(m.now, m.startTime, m.maxWaitSeconds)
        THEN GiveUp(n)
        ELSE IF out.value = JNull
        THEN [n EXCEPT !.pc = "threw",
                       !.result = Thrown(TypeErrorOfNull("status"))]
        ELSE IF NotRunning(out.value)
        THEN [n EXCEPT !.pc = "returned", !.result = Returned(out.value)]
        ELSE [n EXCEPT !.pc = "sleeping", !.wakeAt = m.now + PollIntervalMs,
                       !.sleeps = @ + 1]

\* a loop body that swallows a failed poll and polls again after the interval
AfterPollIgnoringErrors(m, out) ==
    LET n == [m EXCEPT !.polled = Append(@, out)]
    IN  IF ~out.threw /\ out.value = JNull
        THEN [n EXCEPT !.pc = "threw",
                       !.result = Thrown(TypeErrorOfNull("status"))]
        ELSE IF ~out.threw /\ NotRunning(out.value)
        THEN [n EXCEPT !.pc = "returned", !.result = Returned(out.value)]
        ELSE IF ElapsedExceeds(m.now, m.startTime, m.maxWaitSeconds)
        THEN GiveUp(n)
        ELSE [n EXCEPT !.pc = "sleeping", !.wakeAt = m.now + PollIntervalMs,
                       !.sleeps = @ + 1]

\* the loop body of waitForTask from the point client.get has settled with
\* out, up to the return, the throw or the setTimeout
AfterPoll(m, out) ==
    LET n == [m EXCEPT !.polled = Append(@, out)]
    IN  IF out.threw
        THEN [n EXCEPT !.pc = "threw", !.result = out]
        ELSE IF out.value = JNull
        THEN [n EXCEPT !.pc = "threw",
                       !.result = Thrown(TypeErrorOfNull("status"))]
        ELSE IF NotRunning(out.value)
        THEN [n EXCEPT !.pc = "returned", !.result = Returned(out.value)]
        ELSE IF ElapsedExceeds(m.now, m.startTime, m.maxWaitSeconds)
        THEN GiveUp(n)
        ELSE [n EXCEPT !.pc = "sleeping", !.wakeAt = m.now + PollIntervalMs,
                       !.sleeps = @ + 1]

\* client.get<TaskStatus>(`/nodes/${node}/tasks/${...}/status`) is issued
IssuePoll(m) ==
    [m EXCEPT !.pc = "polling",
              !.requests = Append(@, [method |-> "GET",
                                      endpoint |-> StatusEndpoint(m.node, m.upid),
                                      at |-> m.now])]

\* the client is constructed with the default retry settings and has issued
\* no request
PipelineAtRest ==
    /\ config = [retryAttempts |-> 3, retryDelay |-> [num |-> 1000, den |-> 1]]
    /\ clock = 0
    /\ requests = <<>>
    /\ pc = [c \in Calls |-> "unused"]
    /\ retryCount = [c \in Calls |-> 0]
    /\ wakeAt = [c \in Calls |-> 0]
    /\ delay = [c \in Calls |-> 0]
    /\ result = [c \in Calls |-> NoResult]
    /\ admitLog = <<>>
    /\ nAdmit = [c \in Calls |-> 0]
    /\ nFetch = [c \in Calls |-> 0]
    /\ nDone = [c \in Calls |-> 0]
    /\ last = [c \in Calls |-> "none"]
    /\ onlyTimeouts = [c \in Calls |-> TRUE]
    /\ caught = [c \in Calls |-> NoError]
    /\ callArgs = [c \in Calls |-> ArgsOf(RequestOf[c], JUndefined)]
    /\ sent = [c \in Calls |-> <<>>]
    /\ waiters = <<>>
    /\ overtaken = FALSE
    /\ exch = NoExchange

\* waitForTask has been called with node, upid and maxWaitSeconds and has not
\* run yet
InitMonitor ==
    /\ PipelineAtRest
    /\ toolCall = NotRun
    /\ loading = NotRun
    /\ \E node \in {"pve"},
          upid \in {<<"UPID", ":", "pve", ":", "0001A2B3", ":", "qmstart", ":",
                      "100", ":", "root", "@", "pam", ":">>},
          maxWaitSeconds \in {0, 2, 5} :
         monitor = [pc |-> "called", node |-> node, upid |-> upid,
                    maxWaitSeconds |-> maxWaitSeconds, now |-> 0,
                    startTime |-> 0, wakeAt |-> 0, result |-> NoResult,
                    requests |-> <<>>, polled |-> <<>>, sleeps |-> 0]

\* const startTime = Date.now(), and the first client.get is issued
MonitorStart ==
    /\ monitor.pc = "called"
    /\ monitor' = IssuePoll([monitor EXCEPT !.startTime = monitor.now])
    /\ UNCHANGED <<pipelineVars, exch, toolCall, loading>>

\* await client.get(...) resumes
PollSettle ==
    /\ monitor.pc = "polling"
    /\ \E t \in MonitorOutcomes :
         monitor' = AfterPoll(monitor,
                              ClientGet(t, StatusEndpoint(monitor.node, monitor.upid)))
    /\ UNCHANGED <<pipelineVars, exch, toolCall, loading>>

\* a setTimeout of 2000 ms whose callback never runs
SleepWakeNever ==
    /\ monitor.pc = "sleeping"
    /\ FALSE
    /\ UNCHANGED vars

\* the setTimeout of 2000 ms fires (not before its expiry): the loop polls again
SleepWake ==
    /\ monitor.pc = "sleeping"
    /\ monitor.now >= monitor.wakeAt
    /\ monitor' = IssuePoll(monitor)
    /\ UNCHANGED <<pipelineVars, exch, toolCall, loading>>

\* a second passes while the monitor is called, polling or sleeping; past
\* MaxMonitorSeconds only while its setTimeout is pending
MonitorTick ==
    /\ monitor.pc \in {"called", "polling", "sleeping"}
    /\ \/ monitor.now < MaxMonitorSeconds * MsPerSecond
       \/ monitor.pc = "sleeping" /\ monitor.now < monitor.wakeAt
    /\ monitor' = [monitor EXCEPT !.now = @ + MsPerSecond]
    /\ UNCHANGED <<pipelineVars, exch, toolCall, loading>>

NextMonitor ==
    \/ MonitorStart
    \/ PollSettle
    \/ SleepWake
    \/ MonitorTick

SpecMonitor == InitMonitor /\ [][NextMonitor]_vars

\* the same monitor when every client.get settles, every timer fires and
\* time advances
SpecMonitorLive ==
    /\ InitMonitor
    /\ [][NextMonitor]_vars
    /\ WF_vars(MonitorStart \/ PollSettle \/ SleepWake)
    /\ WF_vars(MonitorTick)

(***************************************************************************)
(* Argument validation (validation.ts): the schemas of                     *)
(* proxmox_get_node_status and proxmox_execute_vm_command, and             *)
(* validateArgs.  Argument strings are sequences of characters.            *)
(***************************************************************************)
\* numbers as Number() produces them: NaN, or the rational num / den
NaN == [nan |-> TRUE]
Rat(num, den) == [nan |-> FALSE, num |-> num, den |-> den]

Digits == {"0", "1", "2", "3", "4", "5", "6", "7", "8", "9"}

\* Number(s) for a string s of whitespace, a sign, digits and a decimal
\* point (no exponent, no radix prefix, no Infinity): the StringNumericLiteral
\* grammar of ECMAScript
StringToNumber(s) ==
    LET DigitValue(c) ==
            CASE c = "0" -> 0 [] c = "1" -> 1 [] c = "2" -> 2 [] c = "3" -> 3
              [] c = "4" -> 4 [] c = "5" -> 5 [] c = "6" -> 6 [] c = "7" -> 7
              [] c = "8" -> 8 [] OTHER -> 9
        RECURSIVE Pow10(_)
        Pow10(n) == IF n = 0 THEN 1 ELSE 10 * Pow10(n - 1)
        RECURSIVE DigitsValue(_)
        DigitsValue(ds) ==
            IF ds = <<>> THEN 0
            ELSE 10 * DigitsValue(SubSeq(ds, 1, Len(ds) - 1))
                     + DigitValue(ds[Len(ds)])
        AllDigits(ds) == \A i \in 1..Len(ds) : ds[i] \in Digits
        \* the number whole.frac, at least one of the two not empty
        Fraction(whole, frac) ==
            IF AllDigits(whole) /\ AllDigits(frac) /\ Len(whole) + Len(frac) > 0
            THEN Rat(DigitsValue(whole) * Pow10(Len(frac)) + DigitsValue(frac),
                     Pow10(Len(frac)))
            ELSE NaN
        \* the index of the first decimal point of body, or Len(body) + 1
        DotAt(body) ==
            IF \E i \in 1..Len(body) : body[i] = "."
            THEN CHOOSE i \in 1..Len(body) :
                     body[i] = "." /\ \A j \in 1..(i - 1) : body[j] # "."
            ELSE Len(body) + 1
        Decimal(body, dot) ==
            Fraction(SubSeq(body, 1, dot - 1), SubSeq(body, dot + 1, Len(body)))
        Unsigned(body) == Decimal(body, DotAt(body))
        Negate(n) == IF n.nan THEN n ELSE Rat(-n.num, n.den)
        Signed(t) ==
            IF t = <<>> THEN Rat(0, 1)
            ELSE IF Head(t) = "-" THEN Negate(Unsigned(Tail(t)))
            ELSE IF Head(t) = "+" THEN Unsigned(Tail(t))
            ELSE Unsigned(t)
    IN  Signed(Trim(s))

\* z.coerce.number(): Number(input)
CoerceNumber(v) ==
    CASE v.tag = "number" -> Rat(v.num, 1)
      [] v.tag = "string" -> StringToNumber(v.str)
      [] v.tag = "null" -> Rat(0, 1)
      [] OTHER -> NaN

IsInt(n) == n.num % n.den = 0

Valid(value) == [ok |-> TRUE, value |-> value]
Invalid(message) == [ok |-> FALSE, message |-> message]

\* /^[a-zA-Z0-9\-_.]+$/
NodeNameChars ==
    {"a", "b", "c", "d", "e", "f", "g", "h", "i", "j", "k", "l", "m", "n", "o",
     "p", "q", "r", "s", "t", "u", "v", "w", "x", "y", "z",
     "A", "B", "C", "D", "E", "F", "G", "H", "I", "J", "K", "L", "M", "N", "O",
     "P", "Q", "R", "S", "T", "U", "V", "W", "X", "Y", "Z",
     "-", "_", "."} \cup Digits

\* z.string().min(1).regex(/^[a-zA-Z0-9\-_.]+$/, 'Invalid node name format')
nodeNameSchema(v) ==
    IF v.tag = "undefined" THEN Invalid("Required")
    ELSE IF v.tag # "string"
    THEN Invalid("Expected string, received " \o v.tag)
    ELSE IF Len(v.str) < 1
    THEN Invalid("String must contain at least 1 character(s)")
    ELSE IF \E i \in 1..Len(v.str) : v.str[i] \notin NodeNameChars
    THEN Invalid("Invalid node name format")
    ELSE Valid(v.str)

\* .int().positive().min(100).max(999999999) on the coerced number
VmidChecks(n) ==
    IF n.nan THEN Invalid("Expected number, received nan")
    ELSE IF ~IsInt(n) THEN Invalid("Expected integer, received float")
    ELSE IF n.num <= 0 THEN Invalid("Number must be greater than 0")
    ELSE IF n.num < MinVmid * n.den
    THEN Invalid("Number must be greater than or equal to 100")
    ELSE IF n.num > MaxVmid * n.den
    THEN Invalid("Number must be less than or equal to 999999999")
    ELSE Valid(n.num \div n.den)

\* z.coerce.number().int().positive().min(100).max(999999999)
vmidSchema(v) == VmidChecks(CoerceNumber(v))

\* z.enum(['qemu', 'lxc']).optional().default('qemu')
vmTypeSchema(v) ==
    IF v.tag = "undefined" THEN Valid("qemu")
    ELSE IF v = JStr(<<"q", "e", "m", "u">>) THEN Valid("qemu")
    ELSE IF v = JStr(<<"l", "x", "c">>) THEN Valid("lxc")
    ELSE Invalid("Invalid enum value. Expected 'qemu' | 'lxc'")

\* z.string().min(1).max(10000)
commandSchema(v) ==
    IF v.tag = "undefined" THEN Invalid("Required")
    ELSE IF v.tag # "string"
    THEN Invalid("Expected string, received " \o v.tag)
    ELSE IF Len(v.str) < 1
    THEN Invalid("String must contain at least 1 character(s)")
    ELSE IF Len(v.str) > MaxCommandLen
    THEN Invalid("String must contain at most 10000 character(s)")
    ELSE Valid(v.str)

\* the issues of a parse, as `${issue.path.join('.')}: ${issue.message}`
Issues(fields, parsed) ==
    LET failed == SelectSeq(fields, LAMBDA f : ~parsed[f].ok)
    IN  [i \in 1..Len(failed) |-> failed[i] \o ": " \o parsed[failed[i]].message]

\* Array.prototype.join('; ')
RECURSIVE Join(_)
Join(items) ==
    IF items = <<>> THEN <<>>
    ELSE IF Len(items) = 1 THEN <<items[1]>>
    ELSE <<items[1], "; ">> \o Join(Tail(items))

\* z.object(...).parse: the parsed fields, or the ZodError's issues
ParseObject(fields, parsed) ==
    IF \A i \in 1..Len(fields) : parsed[fields[i]].ok
    THEN [ok |-> TRUE, data |-> [f \in DOMAIN parsed |-> parsed[f].value]]
    ELSE [ok |-> FALSE, issues |-> Issues(fields, parsed)]

\* getNodeStatusArgsSchema.parse(args): data, or the ZodError's issues
getNodeStatusArgsSchema(args) ==
    ParseObject(<<"node">>, [node |-> nodeNameSchema(args.node)])

\* executeVmCommandArgsSchema.parse(args): data, or the ZodError's issues
executeVmCommandArgsSchema(args) ==
    ParseObject(<<"node", "vmid", "command", "type">>,
                [node |-> nodeNameSchema(args.node),
                 vmid |-> vmidSchema(args.vmid),
                 command |-> commandSchema(args.command),
                 type |-> vmTypeSchema(args.type)])

\* validateArgs(schema, args), given what schema.parse(args) did
validateArgs(parse) ==
    IF parse.ok
    THEN [success |-> TRUE, data |-> parse.data]
    ELSE [success |-> FALSE, error |-> Join(parse.issues)]

(***************************************************************************)
(* The CallTool handler (server.ts) with the tools getNodeStatus           *)
(* (tools/nodes.ts) and executeVMCommand (tools/vms.ts)                    *)
(***************************************************************************)
ToolNames ==
    {"proxmox_get_node_status", "proxmox_execute_vm_command",
     "proxmox_no_such_tool"}

\* args || {}: the arguments a caller may send; JUndefined is a missing
\* property
ToolArgs ==
    [node : {JUndefined, JStr(<<"p", "v", "e">>), JStr(<<>>),
             JStr(<<"p", "v", "/", "e">>)},
     vmid : {JUndefined, JNum(100), JNum(99), JStr(<<"1", "0", "0">>),
             JStr(<<"a", "b", "c">>)},
     command : {JUndefined, JStr(<<"l", "s">>), JStr(<<>>)},
     type : {JUndefined, JStr(<<"q", "e", "m", "u">>), JStr(<<"l", "x", "c">>),
             JStr(<<"k", "v", "m">>)}]

\* { content: [{ type: 'text', text }] }
Content(text) == [content |-> <<[type |-> "text", text |-> text]>>]

\* isProxmoxError(error)
IsProxmoxError(error) == "code" \in DOMAIN error

\* the entries of error.context, each as `* ${key}: ${value}\n`
ContextLines(context) ==
    LET keys == SelectSeq(<<"endpoint", "statusCode", "originalError", "responseText">>,
                          LAMBDA key : key \in DOMAIN context)
        Line(key) == IF key = "statusCode"
                     THEN <<"* ", key, ": ", ToString(context[key]), "\n">>
                     ELSE <<"* ", key, ": ">> \o context[key] \o <<"\n">>
        RECURSIVE Lines(_)
        Lines(ks) == IF ks = <<>> THEN <<>> ELSE Line(Head(ks)) \o Lines(Tail(ks))
    IN  Lines(keys)

\* formatError(error)
FormatError(error) ==
    IF IsProxmoxError(error)
    THEN <<"[x] **", error.name, "**\n\n">> \o error.message
         \o (IF "statusCode" \in DOMAIN error
             THEN <<"\n\n**Status Code**: ", ToString(error.statusCode)>>
             ELSE <<>>)
         \o (IF DOMAIN error.context # {}
             THEN <<"\n\n**Context**:\n">> \o ContextLines(error.context)
             ELSE <<>>)
    ELSE IF InstanceOfError(error)
    THEN <<"[x] **Error**\n\n">> \o error.message
    ELSE <<"[x] **Unknown Error**\n\n">>

\* what a step of the handler does next
DoReturn(response) == [do |-> "return", response |-> response]
DoThrow(error) == [do |-> "throw", error |-> error]
DoRequest(method, endpoint, data) ==
    [do |-> "request", data |-> data,
     request |-> [method |-> method, endpoint |-> endpoint]]

\* a tool that asks the API whatever allowElevated says
GetNodeStatusUngated(data, allowElevated) ==
    DoRequest("GET", <<"/nodes/">> \o data.node \o <<"/status">>, data)

\* getNodeStatus(client, config, node) up to its first await
GetNodeStatus(data, allowElevated) ==
    IF ~allowElevated
    THEN DoReturn(Content(<<"**Node Status Requires Elevated Permissions**">>))
    ELSE DoRequest("GET", <<"/nodes/">> \o data.node \o <<"/status">>, data)

\* executeVMCommand(client, config, node, vmid, command, type) up to its
\* first await
ExecuteVMCommand(data, allowElevated) ==
    IF ~allowElevated
    THEN DoReturn(Content(
             <<"**VM Command Execution Requires Elevated Permissions**",
               "**Requested command**: ">> \o data.command))
    ELSE IF data.type = "qemu"
    THEN DoRequest("POST",
                   <<"/nodes/">> \o data.node
                       \o <<"/qemu/", ToString(data.vmid), "/agent/exec">>,
                   data)
    ELSE DoRequest("POST",
                   <<"/nodes/">> \o data.node
                       \o <<"/lxc/", ToString(data.vmid), "/exec">>,
                   data)

\* the tool a case of the switch calls
RunTool(name, data, allowElevated) ==
    IF name = "proxmox_get_node_status"
    THEN GetNodeStatus(data, allowElevated)
    ELSE ExecuteVMCommand(data, allowElevated)

\* a case that calls its tool with the arguments as sent when they are invalid
RouteCaseUnchecked(name, validation, args, allowElevated) ==
    IF validation.success
    THEN RunTool(name, validation.data, allowElevated)
    ELSE RunTool(name,
                 [node |-> IF args.node.tag = "string" THEN args.node.str
                           ELSE <<"undefined">>,
                  vmid |-> 0,
                  command |-> IF args.command.tag = "string" THEN args.command.str
                              ELSE <<"undefined">>,
                  type |-> "qemu"],
                 allowElevated)

\* one case of the switch: validate, throw on failure, call the tool
RouteCase(name, validation, args, allowElevated) ==
    IF ~validation.success
    THEN DoThrow(PlainError(<<"Invalid arguments: ">> \o validation.error))
    ELSE RunTool(name, validation.data, allowElevated)

\* ArgumentValidator.getNodeStatus / executeVmCommand
ArgumentValidator(name, args) ==
    IF name = "proxmox_get_node_status"
    THEN validateArgs(getNodeStatusArgsSchema(args))
    ELSE validateArgs(executeVmCommandArgsSchema(args))

\* switch (name)
Switch(name, args, allowElevated) ==
    IF name \in {"proxmox_get_node_status", "proxmox_execute_vm_command"}
    THEN RouteCase(name, ArgumentValidator(name, args), args, allowElevated)
    ELSE DoThrow(PlainError(<<"Unknown tool: ", name>>))

\* a catch block that passes the error on
CaughtRethrown(error) == [do |-> "escape", error |-> error]

\* catch (error): return { content: [{ type: 'text', text: formatError(error) }] }
Caught(error) == DoReturn(Content(FormatError(error)))

\* getNodeStatus from the point client.get has settled with out
AfterNodeStatus(data, out) ==
    IF out.threw THEN DoThrow(out.error)
    ELSE IF out.value = JNull THEN DoThrow(TypeErrorOfNull("uptime"))
    ELSE DoReturn(Content(
             <<"Node ">> \o data.node \o <<" Status", "Status: ",
               IF HasProp(out.value, "uptime") /\ Truthy(out.value.props.uptime)
               THEN "Online" ELSE "Offline">>))

\* executeVMCommand from the point client.post has settled with out: its own
\* catch block turns every failure into a result
AfterExecute(data, out) ==
    LET Failed(message) ==
            DoReturn(Content(
                <<"[x] **Failed to execute command on VM ",
                  ToString(data.vmid), "**\n\n", "Error: ">> \o message))
    IN  IF out.threw
        THEN Failed(IF InstanceOfError(out.error) THEN out.error.message
                    ELSE <<"Unknown error">>)
        ELSE IF data.type = "qemu"
        THEN IF out.value = JNull
             THEN Failed(TypeErrorOfNull("pid").message)
             ELSE DoReturn(Content(
                      <<"Command executed on VM ", ToString(data.vmid),
                        "Command: ">> \o data.command))
        ELSE DoReturn(Content(
                 <<"Command executed on LXC ", ToString(data.vmid), "Output:">>))

\* return await <tool>(...): the tool resumes when its client call has settled
AfterRequest(name, data, out) ==
    IF name = "proxmox_get_node_status"
    THEN AfterNodeStatus(data, out)
    ELSE AfterExecute(data, out)

\* the try block with its catch: a step that throws returns the formatted error
Handled(step) == IF step.do = "throw" THEN Caught(step.error) ELSE step

\* what the last fetch() of the tool's client call may settle with
ToolOutcomes ==
    {t \in Responses :
        \/ t.status = 200 /\ t.readable /\ t.text \in {BodyEnvelope, BodyEmpty}
        \/ t.status \in {401, 500} /\ t.readable /\ t.text = BodyHtml}
    \cup {t \in Rejections : t.type = "request-timeout"}

\* the server is connected and has handled no call; allowElevated is
\* this.config.allowElevated
InitToolCall ==
    /\ PipelineAtRest
    /\ monitor = NotRun
    /\ loading = NotRun
    /\ \E allowElevated \in BOOLEAN :
         toolCall = [pc |-> "ready", allowElevated |-> allowElevated,
                     served |-> 0, name |-> "none",
                     args |-> [node |-> JUndefined, vmid |-> JUndefined,
                               command |-> JUndefined, type |-> JUndefined],
                     data |-> <<>>, requests |-> <<>>, response |-> NoResult]

\* how the handler leaves a step: it returns a response, awaits the client
\* call it has issued, or lets an exception escape
Leave(call, step) ==
    CASE step.do = "return" ->
           [call EXCEPT !.pc = "ready", !.response = step.response,
                        !.served = @ + 1]
      [] step.do = "request" ->
           [call EXCEPT !.pc = "awaiting", !.data = step.data,
                        !.requests = Append(@, step.request)]
      [] OTHER ->
           [call EXCEPT !.pc = "crashed", !.response = Thrown(step.error)]

\* a CallTool request arrives: the handler runs up to its return or to the
\* first await of the tool
CallTool ==
    /\ toolCall.pc = "ready"
    /\ toolCall.served < MaxToolCalls
    /\ \E name \in ToolNames, args \in ToolArgs :
         toolCall' =
             Leave([toolCall EXCEPT !.name = name, !.args = args, !.data = <<>>,
                                    !.requests = <<>>, !.response = NoResult],
                   Handled(Switch(name, args, toolCall.allowElevated)))
    /\ UNCHANGED <<pipelineVars, exch, monitor, loading>>

\* the client call of the tool settles: the tool and the handler run to the
\* return
ToolSettle ==
    /\ toolCall.pc = "awaiting"
    /\ \E t \in ToolOutcomes :
         LET request == toolCall.requests[Len(toolCall.requests)]
             out == ClientGet(t, request.endpoint)
         IN  toolCall' =
                 Leave(toolCall,
                       Handled(AfterRequest(toolCall.name, toolCall.data, out)))
    /\ UNCHANGED <<pipelineVars, exch, monitor, loading>>

NextToolCall ==
    \/ CallTool
    \/ ToolSettle

SpecToolCall == InitToolCall /\ [][NextToolCall]_vars

(***************************************************************************)
(* loadConfig and configSchema (config.ts), and the construction of the    *)
(* server from the loaded configuration (index.ts main, server.ts)         *)
(* An environment variable is JUndefined when unset, a string otherwise.   *)
(***************************************************************************)
\* rawConfig: process.env after loadEnvFile
Environments ==
    [host : {JUndefined, JStr(<<>>), JStr(<<"p", "v", "e">>)},
     port : {JUndefined, JStr(<<"8", "0", "0", "7">>), JStr(<<"0">>)},
     user : {JStr(<<>>), JStr(<<"m", "c", "p">>)},
     tokenName : {JStr(<<"m", "c", "p">>)},
     tokenValue : {JStr(<<>>), JStr(<<"m", "c", "p">>)},
     allowElevated : {JUndefined, JStr(<<>>), JStr(<<"t", "r", "u", "e">>),
                      JStr(<<"f", "a", "l", "s", "e">>), JStr(<<"0">>)},
     timeout : {JUndefined, JStr(<<"5", "0", "0", "0">>)},
     retryAttempts : {JUndefined, JStr(<<>>), JStr(<<"0">>), JStr(<<"3">>),
                      JStr(<<"5">>), JStr(<<" ", "4", ".", "0">>), JStr(<<"6">>),
                      JStr(<<"-", "1">>), JStr(<<"2", ".", "5">>),
                      JStr(<<"a", "b", "c">>)},
     retryDelay : {JUndefined, JStr(<<"0">>),
                   JStr(<<"2", "5", "0", "0", ".", "5">>)}]

\* z.string().min(1, message)
RequiredString(v, message) ==
    IF v.tag = "undefined" THEN Invalid("Required")
    ELSE IF Len(v.str) < 1 THEN Invalid(message)
    ELSE Valid(v.str)

\* .int().positive() on the coerced number
PortChecks(n) ==
    IF n.nan THEN Invalid("Expected number, received nan")
    ELSE IF ~IsInt(n) THEN Invalid("Expected integer, received float")
    ELSE IF n.num <= 0 THEN Invalid("Number must be greater than 0")
    ELSE Valid(n.num \div n.den)

\* z.coerce.number().int().positive().default(8006)
PortSchema(v) ==
    IF v.tag = "undefined" THEN Valid(DefaultPort) ELSE PortChecks(CoerceNumber(v))

\* Boolean(input) of z.coerce.boolean(): only the empty string is falsy
CoerceBoolean(v) ==
    CASE v.tag = "string" -> v.str # <<>>
      [] OTHER -> Truthy(v)

\* z.coerce.boolean().default(false)
AllowElevatedSchema(v) ==
    IF v.tag = "undefined" THEN Valid(FALSE) ELSE Valid(CoerceBoolean(v))

\* .positive() on the coerced number
PositiveChecks(n) ==
    IF n.nan THEN Invalid("Expected number, received nan")
    ELSE IF n.num <= 0 THEN Invalid("Number must be greater than 0")
    ELSE Valid([num |-> n.num, den |-> n.den])

\* z.coerce.number().positive().default(d): timeout and retryDelay
PositiveSchema(v, d) ==
    IF v.tag = "undefined" THEN Valid([num |-> d, den |-> 1])
    ELSE PositiveChecks(CoerceNumber(v))

\* checks without .max(5)
RetryAttemptsChecksNoMax(n) ==
    IF n.nan THEN Invalid("Expected number, received nan")
    ELSE IF ~IsInt(n) THEN Invalid("Expected integer, received float")
    ELSE IF n.num < 0 THEN Invalid("Number must be greater than or equal to 0")
    ELSE Valid(n.num \div n.den)

\* .int().min(0).max(5) on the coerced number
RetryAttemptsChecks(n) ==
    IF n.nan THEN Invalid("Expected number, received nan")
    ELSE IF ~IsInt(n) THEN Invalid("Expected integer, received float")
    ELSE IF n.num < 0 THEN Invalid("Number must be greater than or equal to 0")
    ELSE IF n.num > MaxRetryAttempts * n.den
    THEN Invalid("Number must be less than or equal to 5")
    ELSE Valid(n.num \div n.den)

\* z.coerce.number().int().min(0).max(5).default(3)
RetryAttemptsSchema(v) ==
    IF v.tag = "undefined" THEN Valid(DefaultRetryAttempts)
    ELSE RetryAttemptsChecks(CoerceNumber(v))

\* configSchema.parse(rawConfig): the configuration, or the ZodError's issues
configSchema(rawConfig) ==
    ParseObject(
        <<"host", "port", "user", "tokenName", "tokenValue", "allowElevated",
          "timeout", "retryAttempts", "retryDelay">>,
        [host |-> RequiredString(rawConfig.host, "PROXMOX_HOST is required"),
         port |-> PortSchema(rawConfig.port),
         user |-> RequiredString(rawConfig.user, "PROXMOX_USER is required"),
         tokenName |-> RequiredString(rawConfig.tokenName,
                                      "PROXMOX_TOKEN_NAME is required"),
         tokenValue |-> RequiredString(rawConfig.tokenValue,
                                       "PROXMOX_TOKEN_VALUE is required"),
         allowElevated |-> AllowElevatedSchema(rawConfig.allowElevated),
         timeout |-> PositiveSchema(rawConfig.timeout, DefaultTimeout),
         retryAttempts |-> RetryAttemptsSchema(rawConfig.retryAttempts),
         retryDelay |-> PositiveSchema(rawConfig.retryDelay, DefaultRetryDelay)])

ConfigurationError(message, context) ==
    [name |-> "ConfigurationError", code |-> "CONFIGURATION_ERROR",
     message |-> message, context |-> context]

\* the catch block of loadConfig: the ConfigurationError built from the ZodError
ConfigurationErrorFor(issues) ==
    ConfigurationError(
        <<"Configuration validation failed:\n">> \o issues
            \o <<"\n\nPlease check your .env file or environment variables.">>,
        [zodError |-> issues])

\* loadConfig(): the parsed configuration, or the ConfigurationError
LoadConfig(rawConfig) ==
    IF configSchema(rawConfig).ok
    THEN Returned(configSchema(rawConfig).data)
    ELSE Thrown(ConfigurationErrorFor(configSchema(rawConfig).issues))

\* the process has started with some environment and has not loaded it yet
InitLoading ==
    /\ PipelineAtRest
    /\ monitor = NotRun
    /\ toolCall = NotRun
    /\ \E env \in Environments :
         loading = [pc |-> "start", env |-> env, result |-> NoResult,
                    client |-> FALSE, requests |-> <<>>, health |-> "none",
                    connected |-> FALSE, exitCode |-> "none"]

\* main(): createServer() calls getConfig(), which calls loadConfig(); a
\* ConfigurationError ends the process with process.exit(1)
Load ==
    /\ loading.pc = "start"
    /\ loading' =
           [loading EXCEPT !.pc = IF LoadConfig(loading.env).threw THEN "exited"
                                  ELSE "loaded",
                           !.result = LoadConfig(loading.env),
                           !.exitCode = IF LoadConfig(loading.env).threw THEN 1
                                        ELSE @]
    /\ UNCHANGED <<pipelineVars, exch, monitor, toolCall>>

\* new ProxmoxMCPServer(config): this.config = config and the client is
\* created with it
CreateServer ==
    /\ loading.pc = "loaded"
    /\ loading' = [loading EXCEPT !.pc = "serving", !.client = TRUE]
    /\ config' = [retryAttempts |-> loading.result.value.retryAttempts,
                  retryDelay |-> loading.result.value.retryDelay]
    /\ toolCall' = [pc |-> "ready",
                    allowElevated |-> loading.result.value.allowElevated,
                    served |-> 0, name |-> "none",
                    args |-> [node |-> JUndefined, vmid |-> JUndefined,
                              command |-> JUndefined, type |-> JUndefined],
                    data |-> <<>>, requests |-> <<>>, response |-> NoResult]
    /\ UNCHANGED <<clock, requests, pc, retryCount, wakeAt, delay, result,
                   admitLog, nAdmit, nFetch, nDone, last, onlyTimeouts, caught,
                   callArgs, sent, waiters, overtaken, exch, monitor>>

\* a start() that refuses to run when the health check fails
StartServerStrict ==
    /\ loading.pc = "serving"
    /\ ~loading.connected
    /\ \E t \in MonitorOutcomes :
         loading' =
             IF ClientGet(t, "/version").threw
             THEN [loading EXCEPT
                       !.pc = "exited", !.exitCode = 1, !.health = "failed",
                       !.requests = Append(@, [method |-> "GET",
                                               endpoint |-> "/version"])]
             ELSE [loading EXCEPT
                       !.health = "passed", !.connected = TRUE,
                       !.requests = Append(@, [method |-> "GET",
                                               endpoint |-> "/version"])]
    /\ UNCHANGED <<pipelineVars, exch, monitor, toolCall>>

\* server.start(): healthCheck() gets /version and turns a throw into false;
\* either way the stdio transport is connected
StartServer ==
    /\ loading.pc = "serving"
    /\ ~loading.connected
    /\ \E t \in MonitorOutcomes :
         loading' =
             [loading EXCEPT
                 !.health = IF ClientGet(t, "/version").threw THEN "failed"
                            ELSE "passed",
                 !.requests = Append(@, [method |-> "GET",
                                         endpoint |-> "/version"]),
                 !.connected = TRUE]
    /\ UNCHANGED <<pipelineVars, exch, monitor, toolCall>>

NextLoading ==
    \/ Load
    \/ CreateServer
    \/ StartServer

SpecLoading == InitLoading /\ [][NextLoading]_vars

(***************************************************************************)
(* listTasks (tools/tasks.ts), for a node that has no task                 *)
(***************************************************************************)
\* params.join('&') behind a '?', or the empty string
TaskQuery(limit, running, errors) ==
    LET params ==
            (IF limit # JUndefined /\ Truthy(limit)
             THEN <<<<"limit=", ToString(limit.num)>>>> ELSE <<>>)
            \o (IF running # JUndefined
                THEN <<<<"running=", IF running.bool THEN "1" ELSE "0">>>> ELSE <<>>)
            \o (IF errors # JUndefined
                THEN <<<<"errors=", IF errors.bool THEN "1" ELSE "0">>>> ELSE <<>>)
        RECURSIVE JoinAmp(_)
        JoinAmp(ps) == IF ps = <<>> THEN <<>>
                       ELSE IF Len(ps) = 1 THEN Head(ps)
                       ELSE Head(ps) \o <<"&">> \o JoinAmp(Tail(ps))
    IN  IF Len(params) > 0 THEN <<"?">> \o JoinAmp(params) ELSE <<>>

\* `/nodes/${node}/tasks${query}`
TasksEndpoint(call) ==
    <<"/nodes/", call.node, "/tasks">>
    \o TaskQuery(call.limit, call.running, call.errors)

\* listTasks from the point client.get has settled with out: the output is
\* built, then logger.info reads tasks.length, and the catch block rethrows.
\* No explored answer holds a task, so the per-task lines are never built.
AfterListTasks(call, out) ==
    LET header == <<"[list] **", "Tasks on Node ", call.node, "**", "\n\n">>
        output ==
            IF out.value = JNull \/ Len(out.value.items) = 0
            THEN header \o <<"No tasks found.\n">>
            ELSE header \o <<"**Total Tasks**: ", ToString(Len(out.value.items)),
                             "\n\n">>
    IN  IF out.threw THEN Thrown(out.error)
        ELSE IF out.value = JNull THEN Thrown(TypeErrorOfNull("length"))
        ELSE Returned(Content(output))

\* listTasks has been called with a node and the optional filters
InitListTasks ==
    /\ PipelineAtRest
    /\ monitor = NotRun
    /\ loading = NotRun
    /\ \E node \in {"pve", "pve2"}, limit \in {JUndefined, JNum(0), JNum(5)},
          running \in {JUndefined} \cup [tag : {"boolean"}, bool : BOOLEAN],
          errors \in {JUndefined} \cup [tag : {"boolean"}, bool : BOOLEAN] :
         toolCall = [pc |-> "called", node |-> node, limit |-> limit,
                     running |-> running, errors |-> errors,
                     requests |-> <<>>, tasks |-> NoResult, result |-> NoResult]

\* client.get<Task[]>(`/nodes/${node}/tasks${query}`) is issued
ListTasksGet ==
    /\ toolCall.pc = "called"
    /\ toolCall' = [toolCall EXCEPT
                       !.pc = "requested",
                       !.requests = Append(@, [method |-> "GET",
                                               endpoint |-> TasksEndpoint(toolCall)])]
    /\ UNCHANGED <<pipelineVars, exch, monitor, loading>>

\* await client.get(...) resumes with no content, a null or empty list, or
\* an error
ListTasksSettle ==
    /\ toolCall.pc = "requested"
    /\ \E t \in {r \in Responses :
                    \/ /\ r.status = 200 /\ r.readable
                       /\ r.text \in {BodyEmpty, BodyBlank, BodyEnvelopeNull}
                    \/ /\ r.status \in {401, 500} /\ r.readable
                       /\ r.text = BodyHtml}
                 \cup {[kind |-> "response", status |-> 200, readable |-> TRUE,
                         text |-> BodyEnvelopeEmptyList]}
                 \cup {r \in Rejections : r.type = "request-timeout"} :
         toolCall' =
             [toolCall EXCEPT
                 !.pc = "done",
                 !.tasks = ClientGet(t, TasksEndpoint(toolCall)),
                 !.result = AfterListTasks(toolCall,
                                ClientGet(t, TasksEndpoint(toolCall)))]
    /\ UNCHANGED <<pipelineVars, exch, monitor, loading>>

NextListTasks ==
    \/ ListTasksGet
    \/ ListTasksSettle

SpecListTasks == InitListTasks /\ [][NextListTasks]_vars

(***************************************************************************)
(* Properties                                                              *)
(***************************************************************************)
Terminal == {"returned", "threw"}

\* the failures handleRequestError retries
Retryable == {"404", "status", "unreadable", "badjson", "timeout", "network"}

\* C1: for one shared rate limiter and any interleaving of logical calls
\* and their retries, any MaxRequests + 1 admissions are spread over at
\* least WindowMs, so no window of width WindowMs holds more than
\* MaxRequests admissions.
RateLimitHolds ==
    \A i, j \in DOMAIN admitLog :
        j >= i + MaxRequests => admitLog[j] - admitLog[i] >= WindowMs

RateLimitWitness ==
    /\ Len(admitLog) > MaxRequests
    /\ \A c \in Calls : nAdmit[c] >= 1
    /\ \E c \in Calls : nAdmit[c] >= 2

\* C2: once an attempt is answered 401 or 403 the logical call has thrown
\* that very error, unwrapped, and no transport call follows; a 401 or 403
\* on the first attempt means one transport call in total.
AuthPermissionFailFast ==
    \A c \in Calls :
        last[c] \in {"401", "403"} =>
            /\ pc[c] = "threw"
            /\ nFetch[c] = nDone[c]
            /\ result[c] = Thrown(caught[c])
            /\ caught[c].name = (IF last[c] = "401"
                                 THEN "ProxmoxAuthenticationError"
                                 ELSE "ProxmoxPermissionError")
            /\ caught[c].context.endpoint = RequestOf[c].endpoint
            /\ (retryCount[c] = 0 => nFetch[c] = 1)

AuthPermissionWitness ==
    \E c \in Calls :
        /\ last[c] = "401"
        /\ pc[c] = "threw"
        /\ config.retryAttempts = MaxRetryAttempts
        /\ nFetch[c] = 1

\* C3 as stated: with retryAttempts = N >= 1 and every attempt timing out,
\* exactly N transport attempts are made before the Connection error.
ExhaustionAfterNAttempts ==
    \A c \in Calls :
        (pc[c] = "threw" /\ onlyTimeouts[c] /\ config.retryAttempts >= 1) =>
            /\ nFetch[c] = config.retryAttempts
            /\ result[c].error.name = "ProxmoxConnectionError"

\* C3 amended: with retryAttempts = N and every attempt timing out, exactly
\* N + 1 transport attempts are made (the first one and N retries), and the
\* call then fails with a Connection error whose context names the endpoint.
ExhaustionAfterNPlusOneAttempts ==
    \A c \in Calls :
        (pc[c] = "threw" /\ onlyTimeouts[c]) =>
            /\ nFetch[c] = config.retryAttempts + 1
            /\ nDone[c] = nFetch[c]
            /\ result[c].error.name = "ProxmoxConnectionError"
            /\ result[c].error.context.endpoint = RequestOf[c].endpoint

ExhaustionWitness ==
    \E c \in Calls :
        /\ pc[c] = "threw"
        /\ onlyTimeouts[c]
        /\ config.retryAttempts = 3
        /\ nFetch[c] = 4

\* C4: a failure other than 401/403 is retried while attempts remain; when
\* none remain the caller gets a Connection error wrapping the message of
\* the last failure; only Authentication, Permission and Connection errors
\* leave get/post/put/delete.
RetryThenConnection ==
    \A c \in Calls :
        /\ (last[c] \in Retryable /\ nDone[c] <= config.retryAttempts) =>
               pc[c] \notin Terminal
        /\ (last[c] \in Retryable /\ nDone[c] > config.retryAttempts) =>
               /\ pc[c] = "threw"
               /\ nDone[c] = config.retryAttempts + 1
               /\ result[c].error.name = "ProxmoxConnectionError"
               /\ result[c].error.context.originalError = caught[c].message
               /\ result[c].error.message =
                      <<"Failed to connect to Proxmox after ",
                        ToString(config.retryAttempts), " attempts: ">>
                      \o caught[c].message
        /\ pc[c] = "threw" =>
               result[c].error.name \in
                   {"ProxmoxAuthenticationError", "ProxmoxPermissionError",
                    "ProxmoxConnectionError"}

RetryThenConnectionWitness ==
    \E c \in Calls :
        /\ pc[c] = "threw"
        /\ last[c] = "404"
        /\ config.retryAttempts = 2
        /\ nFetch[c] = 3
        /\ caught[c].name = "ProxmoxNotFoundError"

\* the delay before jitter of the retry call c sleeps on, times the
\* denominator of retryDelay: min(b * 2^n, 30000) * den
PreJitterTimesDen(c) ==
    Min(config.retryDelay.num * Pow2(retryCount[c]),
        maxDelay * config.retryDelay.den)

\* C5 as stated: the suspension lies between d and 1.3 * d for
\* d = min(b * 2^n, 30000), and the first retry uses n = 0.
BackoffBetweenDAnd13D ==
    \A c \in Calls :
        pc[c] = "backoff" =>
            /\ delay[c] * config.retryDelay.den >= PreJitterTimesDen(c)
            /\ 10 * delay[c] * config.retryDelay.den <= 13 * PreJitterTimesDen(c)
            /\ retryCount[c] = nDone[c] - 1

\* C5 amended: the suspension is floor(d + jitter) for
\* d = min(b * 2^n, 30000): it is at most 1.3 * d, more than d - 1, and at
\* least d when d is a whole number; the first retry uses n = 0.
BackoffFloored ==
    \A c \in Calls :
        pc[c] = "backoff" =>
            /\ delay[c] * config.retryDelay.den
                   > PreJitterTimesDen(c) - config.retryDelay.den
            /\ (PreJitterTimesDen(c) % config.retryDelay.den = 0 =>
                   delay[c] * config.retryDelay.den >= PreJitterTimesDen(c))
            /\ 10 * delay[c] * config.retryDelay.den <= 13 * PreJitterTimesDen(c)
            /\ retryCount[c] = nDone[c] - 1

BackoffWitness ==
    \E c \in Calls :
        /\ pc[c] = "backoff"
        /\ config.retryDelay.num * Pow2(retryCount[c])
               > maxDelay * config.retryDelay.den
        /\ delay[c] > maxDelay

Exchanged == "transport" \in DOMAIN exch

\* C6: a completed non-2xx exchange is classified by its status alone:
\* 401 Authentication, 403 Permission, 404 NotFound, anything else ApiError
\* with that status; a transport failure is none of the four.
ClassificationExact ==
    Exchanged =>
        LET t == exch.transport
            out == exch.out
        IN  /\ (t.kind = "response" /\ ~(t.status \in 200..299)) =>
                   /\ out.threw
                   /\ out.error.name =
                          (CASE t.status = 401 -> "ProxmoxAuthenticationError"
                             [] t.status = 403 -> "ProxmoxPermissionError"
                             [] t.status = 404 -> "ProxmoxNotFoundError"
                             [] OTHER -> "ProxmoxApiError")
                   /\ out.error.statusCode = t.status
            /\ t.kind = "rejected" =>
                   /\ out.threw
                   /\ out.error.name \notin
                          {"ProxmoxAuthenticationError", "ProxmoxPermissionError",
                           "ProxmoxNotFoundError", "ProxmoxApiError"}

ClassificationWitness ==
    /\ Exchanged
    /\ exch.transport.kind = "response"
    /\ exch.transport.status = 404
    /\ exch.out.threw
    /\ exch.out.error.name = "ProxmoxNotFoundError"

\* C7: a 2xx response with a JSON body yields the 'data' field of the
\* parsed value when that value is an object with a 'data' property and
\* the parsed value itself otherwise; {"data":{"version":"8.0"}} yields
\* {"version":"8.0"} and {} yields {}.
EnvelopeUnwrapped ==
    (Exchanged /\ Digest(exch.transport) = "json") =>
        LET parsed == JSONParse(exch.transport.text).value
        IN  /\ ~exch.out.threw
            /\ exch.out.value =
                   (IF parsed.tag = "object" /\ "data" \in DOMAIN parsed.props
                    THEN parsed.props.data
                    ELSE parsed)
            /\ exch.transport.text = BodyEnvelope =>
                   exch.out.value = JObj([version |-> JStr("8.0")])
            /\ exch.transport.text = BodyEmptyObject =>
                   exch.out.value = JObj(<<>>)

EnvelopeWitness ==
    /\ Exchanged
    /\ exch.transport.kind = "response"
    /\ exch.transport.status = 200
    /\ exch.transport.readable
    /\ exch.transport.text = BodyEnvelope
    /\ ~exch.out.threw
    /\ exch.out.value = JObj([version |-> JStr("8.0")])

\* C8: a 2xx response with an empty or blank body ends the logical call
\* with the no-content result: nothing is thrown and no retry is made.
EmptyBodySucceeds ==
    \A c \in Calls :
        last[c] = "empty" =>
            /\ pc[c] = "returned"
            /\ result[c] = Returned(NoContent)
            /\ ~result[c].threw
            /\ caught[c] = NoError
            /\ nFetch[c] = nDone[c]

EmptyBodyWitness ==
    \E c \in Calls :
        /\ last[c] = "empty"
        /\ pc[c] = "returned"
        /\ config.retryAttempts >= 1
        /\ nFetch[c] = 1

\* C9 as stated: when the last attempt got a 2xx body that is not JSON, the
\* caller of get/post/put/delete receives an ApiError.
ParseFailureDeliveredAsApiError ==
    \A c \in Calls :
        (last[c] = "badjson" /\ pc[c] \in Terminal) =>
            /\ pc[c] = "threw"
            /\ result[c].error.name = "ProxmoxApiError"

\* C9 amended: a 2xx body that is not JSON makes handleResponse throw an
\* ApiError (status 500) with the parse failure message and an excerpt of
\* at most 200 characters of the body; the body is never returned; the
\* executor retries it like any other failure and, when no attempt is
\* left, the caller receives a Connection error wrapping that message.
ParseFailureRetriedThenConnection ==
    \A c \in Calls :
        last[c] = "badjson" =>
            /\ caught[c].name = "ProxmoxApiError"
            /\ caught[c].statusCode = 500
            /\ Head(caught[c].message) = "Failed to parse Proxmox API response: "
            /\ Len(caught[c].message) > 1
            /\ Len(caught[c].context.responseText) <= ExcerptLen
            /\ pc[c] # "returned"
            /\ pc[c] = "threw" =>
                   /\ nFetch[c] = config.retryAttempts + 1
                   /\ result[c].error.name = "ProxmoxConnectionError"
                   /\ result[c].error.context.originalError = caught[c].message

ParseFailureWitness ==
    \E c \in Calls :
        /\ last[c] = "badjson"
        /\ pc[c] = "threw"
        /\ Len(caught[c].context.responseText) = ExcerptLen
        /\ result[c].error.name = "ProxmoxConnectionError"

\* C10: within a logical call every transport call has its own completed
\* admission before it, an attempt is classified only after its transport
\* call has settled, and at most one transport call is in flight.
AttemptsSequential ==
    \A c \in Calls :
        /\ nFetch[c] <= nAdmit[c] /\ nAdmit[c] <= nFetch[c] + 1
        /\ nDone[c] <= nFetch[c] /\ nFetch[c] <= nDone[c] + 1
        /\ pc[c] = "inflight" <=> nFetch[c] = nDone[c] + 1
        /\ pc[c] = "inflight" => nAdmit[c] = nFetch[c]
        /\ pc[c] = "admitted" => nAdmit[c] = nFetch[c] + 1
        /\ pc[c] \in {"admitted", "inflight"} => nAdmit[c] = retryCount[c] + 1
        /\ nDone[c] = 0 =>
               (last[c] = "none" /\ caught[c] = NoError /\ result[c] = NoResult)
        /\ pc[c] \in {"backoff"} \cup Terminal => nDone[c] = retryCount[c] + 1

AttemptsSequentialWitness ==
    \E c \in Calls :
        /\ pc[c] = "inflight"
        /\ nFetch[c] = 2
        /\ \E other \in Calls \ {c} : pc[other] = "inflight"

(***************************************************************************)
(* Properties of waitForTask                                               *)
(***************************************************************************)
\* the i-th poll returned a task snapshot whose status is not 'running'
TerminalPoll(i) ==
    /\ ~monitor.polled[i].threw
    /\ monitor.polled[i].value # JNull
    /\ NotRunning(monitor.polled[i].value)

\* C11: the first poll that returns a snapshot whose status is not 'running'
\* ends the monitor: it is the last poll, no request follows it, the monitor
\* returns that very snapshot whatever its exit status and however much time
\* has elapsed, and every earlier poll was followed by one sleep; when it is
\* the first poll, one request was made and no sleep
FirstTerminalPollEnds ==
    \A i \in 1..Len(monitor.polled) :
        TerminalPoll(i) =>
            /\ i = Len(monitor.polled)
            /\ Len(monitor.requests) = i
            /\ monitor.sleeps = i - 1
            /\ monitor.pc = "returned"
            /\ monitor.result = Returned(monitor.polled[i].value)

\* a first poll that reports a failed task after maxWaitSeconds has elapsed
FirstTerminalPollWitness ==
    /\ Len(monitor.polled) = 1
    /\ TerminalPoll(1)
    /\ monitor.polled[1].value.props.exitstatus = JStr("command failed")
    /\ ElapsedExceeds(monitor.now, monitor.startTime, monitor.maxWaitSeconds)
    /\ monitor.pc = "returned"
    /\ monitor.sleeps = 0

\* every poll made so far returned a snapshot with status 'running'
AlwaysRunning ==
    \A i \in 1..Len(monitor.polled) :
        /\ ~monitor.polled[i].threw
        /\ monitor.polled[i].value # JNull
        /\ ~NotRunning(monitor.polled[i].value)

\* the error waitForTask throws when it gives up
TimeoutError(maxWaitSeconds) ==
    PlainError(<<"Task did not complete within ", ToString(maxWaitSeconds),
                 " seconds">>)

\* consecutive polls start at least 2000 ms apart
PollsSpaced ==
    \A i \in 1..(Len(monitor.requests) - 1) :
        monitor.requests[i + 1].at - monitor.requests[i].at >= PollIntervalMs

\* C12 as stated: with maxWaitSeconds = 5 and a task that always reports
\* 'running', the monitor that has given up made 2 or 3 polls, 2 seconds
\* apart, and at least 5 seconds have elapsed
TimeoutAfterTwoOrThreePolls ==
    (monitor.maxWaitSeconds = 5 /\ AlwaysRunning /\ monitor.pc = "threw") =>
        /\ Len(monitor.requests) \in 2..3
        /\ PollsSpaced
        /\ monitor.now - monitor.startTime >= 5 * MsPerSecond

\* C12 amended: with maxWaitSeconds = 5 and a task that always reports
\* 'running', consecutive polls start at least 2 seconds apart, the monitor
\* never returns, it makes between 1 and 4 polls, and when it has given up it
\* threw the timeout error with more than 5 seconds elapsed
TimeoutAfterOneToFourPolls ==
    (monitor.maxWaitSeconds = 5 /\ AlwaysRunning) =>
        /\ PollsSpaced
        /\ Len(monitor.requests) <= 4
        /\ monitor.pc # "returned"
        /\ monitor.pc = "threw" =>
               /\ Len(monitor.requests) \in 1..4
               /\ monitor.result = Thrown(TimeoutError(5))
               /\ monitor.now - monitor.startTime > 5 * MsPerSecond

\* four polls that each answer at once, the last one 6 seconds after the start
TimeoutAfterFourPollsWitness ==
    /\ monitor.maxWaitSeconds = 5
    /\ AlwaysRunning
    /\ monitor.pc = "threw"
    /\ Len(monitor.requests) = 4
    /\ monitor.sleeps = 3
    /\ monitor.now - monitor.startTime = 6 * MsPerSecond
    /\ monitor.result = Thrown(TimeoutError(5))

\* C13: when the monitor gives up on a task that is still running, the error
\* it throws is of a kind of its own (not the plain Error every other ad hoc
\* failure uses) and carries a context with the elapsed duration, the UPID
\* and the node
TimeoutErrorCarriesHandle ==
    (AlwaysRunning /\ monitor.pc = "threw") =>
        LET e == monitor.result.error
        IN  /\ e.name # "Error"
            /\ "context" \in DOMAIN e
            /\ {"elapsed", "upid", "node"} \subseteq DOMAIN e.context

\* C14: on every path of the monitor, the timeout included, each request it
\* has issued is a GET of the status endpoint of its task: no DELETE (the
\* request of stopTask) and no other mutating request is ever issued
OnlyStatusGets ==
    \A i \in 1..Len(monitor.requests) :
        /\ monitor.requests[i].method = "GET"
        /\ monitor.requests[i].endpoint =
               StatusEndpoint(monitor.node, monitor.upid)
        /\ monitor.requests[i].endpoint # TaskEndpoint(monitor.node, monitor.upid)

\* a monitor that has given up after two polls of a running task
OnlyStatusGetsWitness ==
    /\ monitor.maxWaitSeconds = 2
    /\ AlwaysRunning
    /\ monitor.pc = "threw"
    /\ Len(monitor.requests) = 2
    /\ monitor.result = Thrown(TimeoutError(2))

(***************************************************************************)
(* Properties of the CallTool handler                                      *)
(***************************************************************************)
\* the handler has completed the call toolCall.name / toolCall.args
Completed == toolCall.pc = "ready" /\ toolCall.served > 0

\* C15: whatever the tool name, the arguments and the outcome of the client
\* call, no exception escapes the handler: it is awaiting its client call or
\* has returned a result with one text content item, and it is then ready for
\* the next call
HandlerAlwaysReturns ==
    /\ toolCall.pc \in {"ready", "awaiting"}
    /\ Completed =>
           /\ DOMAIN toolCall.response = {"content"}
           /\ Len(toolCall.response.content) = 1
           /\ toolCall.response.content[1].type = "text"
           /\ toolCall.response.content[1].text # <<>>

\* a second call whose client call failed with 401 was answered with the
\* formatted authentication error
HandlerAlwaysReturnsWitness ==
    /\ Completed
    /\ toolCall.served = 2
    /\ toolCall.name = "proxmox_get_node_status"
    /\ Len(toolCall.requests) = 1
    /\ toolCall.response.content[1].text[2] = "ProxmoxAuthenticationError"

KnownTools == {"proxmox_get_node_status", "proxmox_execute_vm_command"}

\* the call being handled names no tool of the switch, or its arguments fail
\* the tool's schema
Rejected ==
    /\ toolCall.name # "none"
    /\ \/ toolCall.name \notin KnownTools
       \/ ~ArgumentValidator(toolCall.name, toolCall.args).success

\* C16: a call with an unknown tool name or with arguments that fail schema
\* validation (a node that is missing, empty or holds a '/' among them)
\* issues no client request, hence no rate-limiter admission and no transport
\* call, and is completed with an error result
RejectedBeforeNetwork ==
    /\ Rejected =>
           /\ toolCall.requests = <<>>
           /\ Completed
           /\ toolCall.response.content[1].text[1] = "[x] **Error**\n\n"
           /\ toolCall.response.content[1].text[2] =
                  (IF toolCall.name \in KnownTools THEN "Invalid arguments: "
                   ELSE "Unknown tool: ")
    /\ (toolCall.name \in KnownTools
           /\ toolCall.args.node \in {JUndefined, JStr(<<>>),
                                      JStr(<<"p", "v", "/", "e">>)}) =>
           toolCall.requests = <<>>

\* elevated mode, a known tool, a node name with a '/': answered with the
\* validation message and nothing sent
RejectedBeforeNetworkWitness ==
    /\ toolCall.allowElevated
    /\ toolCall.name = "proxmox_get_node_status"
    /\ toolCall.args.node = JStr(<<"p", "v", "/", "e">>)
    /\ Completed
    /\ toolCall.requests = <<>>
    /\ toolCall.response.content[1].text =
           <<"[x] **Error**\n\n", "Invalid arguments: ",
             "node: Invalid node name format">>

\* C17: with allowElevated = false a call of proxmox_get_node_status or
\* proxmox_execute_vm_command issues no request whatever its arguments, and
\* when the arguments reach the tool the result is the tool's notice that
\* elevated permissions are required
BasicModeSendsNothing ==
    (~toolCall.allowElevated /\ toolCall.name \in KnownTools) =>
        /\ toolCall.requests = <<>>
        /\ Completed
        /\ ArgumentValidator(toolCall.name, toolCall.args).success =>
               toolCall.response.content[1].text[1] =
                   (IF toolCall.name = "proxmox_get_node_status"
                    THEN "**Node Status Requires Elevated Permissions**"
                    ELSE "**VM Command Execution Requires Elevated Permissions**")

\* basic mode, a valid command for VM 100: the notice, and nothing sent
BasicModeWitness ==
    /\ ~toolCall.allowElevated
    /\ toolCall.name = "proxmox_execute_vm_command"
    /\ toolCall.args = [node |-> JStr(<<"p", "v", "e">>),
                        vmid |-> JStr(<<"1", "0", "0">>),
                        command |-> JStr(<<"l", "s">>), type |-> JUndefined]
    /\ Completed
    /\ toolCall.requests = <<>>
    /\ toolCall.response =
           Content(<<"**VM Command Execution Requires Elevated Permissions**",
                     "**Requested command**: ", "l", "s">>)

(***************************************************************************)
(* Properties of loadConfig                                                *)
(***************************************************************************)
ConfigLoaded == loading.pc \in {"loaded", "serving"}

\* C18: the loaded configuration has allowElevated = true only when
\* PROXMOX_ALLOW_ELEVATED is the string 'true'; with 'false', or unset, it is
\* false, and the server is constructed in basic mode
ElevatedOnlyWhenTrue ==
    /\ ConfigLoaded =>
           (loading.result.value.allowElevated
               <=> loading.env.allowElevated = JStr(<<"t", "r", "u", "e">>))
    /\ loading.pc = "serving" =>
           (toolCall.allowElevated
               <=> loading.env.allowElevated = JStr(<<"t", "r", "u", "e">>))

\* the environment strings that Number() turns into an integer in 0..5
RetryAttemptsInRange ==
    {JStr(<<>>), JStr(<<"0">>), JStr(<<"3">>), JStr(<<"5">>),
     JStr(<<" ", "4", ".", "0">>)}

\* the number each of them stands for
RetryAttemptsMeant(v) ==
    CASE v = JUndefined -> 3
      [] v = JStr(<<"3">>) -> 3
      [] v = JStr(<<"5">>) -> 5
      [] v = JStr(<<" ", "4", ".", "0">>) -> 4
      [] OTHER -> 0

\* C19: loadConfig returns a configuration only when host, user, tokenName
\* and tokenValue are non-empty strings and retryAttempts is an integer in
\* 0..5 (the number the variable spells, 3 when unset); unset port, timeout,
\* retryAttempts and retryDelay give 8006, 30000, 3 and 1000; an environment
\* with a required value missing or empty, or with retryAttempts 6, -1, 2.5
\* or abc, ends in a ConfigurationError and no server; a client is only ever
\* constructed with retryAttempts in 0..5
LoadConfigValidates ==
    LET env == loading.env
        cfg == loading.result.value
        required == {env.host, env.user, env.tokenName, env.tokenValue}
        rejected == \/ \E v \in required : v = JUndefined \/ v = JStr(<<>>)
                    \/ env.retryAttempts \notin RetryAttemptsInRange \cup {JUndefined}
    IN  /\ ConfigLoaded =>
               /\ ~rejected
               /\ cfg.host = env.host.str /\ cfg.user = env.user.str
               /\ cfg.tokenName = env.tokenName.str
               /\ cfg.tokenValue = env.tokenValue.str
               /\ cfg.retryAttempts \in 0..5
               /\ cfg.retryAttempts = RetryAttemptsMeant(env.retryAttempts)
               /\ env.port = JUndefined => cfg.port = 8006
               /\ env.timeout = JUndefined => cfg.timeout = [num |-> 30000, den |-> 1]
               /\ env.retryDelay = JUndefined =>
                      cfg.retryDelay = [num |-> 1000, den |-> 1]
        /\ (loading.pc # "start" /\ rejected) =>
               /\ loading.pc = "exited"
               /\ loading.result.threw
               /\ loading.result.error.name = "ConfigurationError"
               /\ loading.result.error.code = "CONFIGURATION_ERROR"
        /\ loading.pc = "exited" =>
               loading.result.error.name = "ConfigurationError"
        /\ loading.pc = "serving" =>
               /\ config.retryAttempts \in 0..5
               /\ config.retryAttempts = cfg.retryAttempts

\* only the four required values and PROXMOX_RETRY_ATTEMPTS=' 4.0' are set:
\* the server is constructed with the defaults and retryAttempts = 4
LoadConfigWitness ==
    /\ loading.pc = "serving"
    /\ loading.env.retryAttempts = JStr(<<" ", "4", ".", "0">>)
    /\ loading.env.port = JUndefined
    /\ loading.env.timeout = JUndefined
    /\ loading.env.retryDelay = JUndefined
    /\ config = [retryAttempts |-> 4, retryDelay |-> [num |-> 1000, den |-> 1]]
    /\ loading.result.value.port = 8006

(***************************************************************************)
(* Properties of the errors that reach the caller                          *)
(***************************************************************************)
\* C20: an error the monitor propagates, be it the client's Authentication,
\* Permission or Connection error or the monitor's own timeout, carries its
\* kind (a code), a message and a context that holds the endpoint
PropagatedErrorsCarryContext ==
    (monitor.pc = "threw" /\ monitor.result.error.name # "TypeError") =>
        LET e == monitor.result.error
        IN  /\ "code" \in DOMAIN e
            /\ "message" \in DOMAIN e
            /\ "context" \in DOMAIN e
            /\ "endpoint" \in DOMAIN e.context

\* the same for the errors of the client alone, which do carry all three
ClientErrorsCarryContext ==
    (monitor.pc = "threw" /\ ~AlwaysRunning
        /\ monitor.result.error.name # "TypeError") =>
        LET e == monitor.result.error
        IN  /\ e.name \in {"ProxmoxAuthenticationError", "ProxmoxPermissionError",
                           "ProxmoxConnectionError"}
            /\ e.code # ""
            /\ e.message # <<>>
            /\ e.context.endpoint = StatusEndpoint(monitor.node, monitor.upid)

(***************************************************************************)
(* Properties of the rate limiter's list and of retries                    *)
(***************************************************************************)
\* the entries of list that are younger than WindowMs at time now
YoungerThanWindow(list, now) ==
    SelectSeq(list, LAMBDA time : time + WindowMs > now)

\* call c goes through one evaluation of waitIfNeeded in this step
Evaluates(c) ==
    /\ pc[c] \in {"idle", "limiterWait", "backoff"}
    /\ pc'[c] \in {"limiterWait", "admitted"}
    /\ \A other \in Calls \ {c} : pc'[other] = pc[other]
    /\ clock' = clock

\* C21: the recorded timestamps are in non-decreasing order and none lies in
\* the future, the list is never longer than MaxRequests, it changes only in
\* a step in which one call evaluates waitIfNeeded, and what that evaluation
\* leaves is the pruned list with at most the current time appended: an
\* admission appends to a pruned list that was not full.
RequestsListKept ==
    /\ [](/\ \A i, j \in DOMAIN requests : i <= j => requests[i] <= requests[j]
          /\ \A i \in DOMAIN requests : requests[i] <= clock
          /\ Len(requests) <= MaxRequests)
    /\ [][/\ requests' # requests =>
               /\ \E c \in Calls : Evaluates(c)
               /\ \/ requests' = YoungerThanWindow(requests, clock)
                  \/ requests' = Append(YoungerThanWindow(requests, clock), clock)
          /\ nAdmit' # nAdmit =>
               /\ requests' = Append(YoungerThanWindow(requests, clock), clock)
               /\ Len(YoungerThanWindow(requests, clock)) < MaxRequests
          /\ (\E c \in Calls : Evaluates(c)) =>
               requests' \in {YoungerThanWindow(requests, clock),
                              Append(YoungerThanWindow(requests, clock), clock)}
         ]_vars

\* the window is full, an earlier entry has been pruned and a call is
\* suspended in waitIfNeeded
RequestsListWitness ==
    /\ Len(requests) = MaxRequests
    /\ Len(admitLog) > Len(requests)
    /\ requests[1] > admitLog[1]
    /\ \E c \in Calls : pc[c] = "limiterWait"

\* C22: an evaluation of waitIfNeeded that finds the pruned list full records
\* no admission: the call suspends for windowMs - (now - oldest), which is
\* positive, and a suspended call leaves the suspension only after that time
\* and only through a fresh evaluation (prune, test, then admit or suspend
\* again).
FullWindowSuspends ==
    [][\A c \in Calls :
          /\ (Evaluates(c)
              /\ Len(YoungerThanWindow(requests, clock)) >= MaxRequests) =>
                 /\ nAdmit' = nAdmit
                 /\ admitLog' = admitLog
                 /\ pc'[c] = "limiterWait"
                 /\ wakeAt'[c] - clock =
                        WindowMs - (clock - YoungerThanWindow(requests, clock)[1])
                 /\ wakeAt'[c] - clock > 0
          /\ (pc[c] = "limiterWait" /\ (pc'[c] # pc[c] \/ wakeAt'[c] # wakeAt[c])) =>
                 /\ clock >= wakeAt[c]
                 /\ Evaluates(c)
                 /\ pc'[c] = "admitted" =>
                        Len(YoungerThanWindow(requests, clock)) < MaxRequests
                 /\ pc'[c] = "limiterWait" =>
                        Len(YoungerThanWindow(requests, clock)) >= MaxRequests
      ]_vars

\* a retry is suspended by the full window for the shortest possible time
FullWindowWitness ==
    \E c \in Calls :
        /\ pc[c] = "limiterWait"
        /\ retryCount[c] > 0
        /\ Len(requests) = MaxRequests
        /\ wakeAt[c] = requests[1] + WindowMs
        /\ wakeAt[c] = clock + 1

\* what the normalizer returns for the parseable bodies the remote end sends
NormalizedValues ==
    {Unwrap(JSONParse(text).value) :
        text \in {b \in PipelineBodies : ~IsBlank(b) /\ JSONParse(b).ok}}

\* C23 as stated: every transport call that completes with a 2xx status ends
\* the logical call with a return, and no transport call follows.
AnySuccessStatusEndsCall ==
    \A c \in Calls :
        last[c] \in {"empty", "json", "badjson", "unreadable"} =>
            (pc[c] = "returned" /\ nFetch[c] = nDone[c])

\* C23 amended: a transport call that completes with a 2xx status and a body
\* that is blank or parses as JSON ends the logical call: the normalizer's
\* value is returned and no transport call follows; a 2xx response whose body
\* cannot be read or parsed is a failure, retried while retries remain and
\* ending in an error when none remain.
NormalizedSuccessEndsCall ==
    /\ [](\A c \in Calls :
            /\ last[c] = "empty" =>
                   (pc[c] = "returned" /\ result[c] = Returned(NoContent)
                    /\ nFetch[c] = nDone[c])
            /\ last[c] = "json" =>
                   (pc[c] = "returned" /\ ~result[c].threw
                    /\ result[c].value \in NormalizedValues
                    /\ nFetch[c] = nDone[c])
            /\ pc[c] = "returned" => last[c] \in {"empty", "json"}
            /\ (last[c] \in {"badjson", "unreadable"}
                /\ nDone[c] <= config.retryAttempts) =>
                   pc[c] \in {"backoff", "limiterWait", "admitted", "inflight"}
            /\ (last[c] \in {"badjson", "unreadable"}
                /\ nDone[c] > config.retryAttempts) => pc[c] = "threw")
    /\ [][\A c \in Calls :
            pc[c] = "returned" =>
                (pc'[c] = pc[c] /\ nFetch'[c] = nFetch[c]
                 /\ nAdmit'[c] = nAdmit[c] /\ result'[c] = result[c])]_vars

\* the third attempt succeeds and ends the call while retries remain
NormalizedSuccessWitness ==
    \E c \in Calls :
        /\ pc[c] = "returned"
        /\ last[c] = "json"
        /\ nFetch[c] = 3
        /\ config.retryAttempts = MaxRetryAttempts

\* C24: retryCount is 0 until the first retry and grows by exactly 1 with each
\* retry, at most retryAttempts + 1 transport calls are made, a backoff
\* suspension follows a failed attempt and is left only into the next
\* attempt, and every call ends with a result or an error and stays ended.
RetriesBoundedAndTerminating ==
    /\ [](\A c \in Calls :
            /\ retryCount[c] <= config.retryAttempts
            /\ nFetch[c] <= config.retryAttempts + 1
            /\ nFetch[c] \in {retryCount[c], retryCount[c] + 1}
            /\ nFetch[c] = 0 => retryCount[c] = 0
            /\ pc[c] = "backoff" =>
                   /\ nDone[c] = retryCount[c] + 1
                   /\ nFetch[c] = nDone[c]
                   /\ last[c] \in Retryable
                   /\ retryCount[c] < config.retryAttempts)
    /\ [][\A c \in Calls :
            /\ retryCount'[c] # retryCount[c] =>
                   (retryCount'[c] = retryCount[c] + 1 /\ pc[c] = "backoff")
            /\ (pc[c] = "backoff" /\ pc'[c] # pc[c]) =>
                   /\ retryCount'[c] = retryCount[c] + 1
                   /\ pc'[c] \in {"limiterWait", "admitted"}
                   /\ result'[c] = NoResult
            /\ pc'[c] = "backoff" => pc[c] \in {"inflight", "backoff"}]_vars
    /\ <>[](\A c \in Calls : pc[c] \in Terminal)

\* every retry has been used and the call has ended in an error, after time
\* has moved past the horizon
RetriesBoundedWitness ==
    \E c \in Calls :
        /\ pc[c] = "threw"
        /\ retryCount[c] = LiveRetries
        /\ nFetch[c] = LiveRetries + 1
        /\ clock > MaxConcurrentClock

\* C25: with two concurrent callers and time advancing, no call stays
\* suspended in waitIfNeeded forever, and a suspended call leaves the
\* suspension only by being admitted.
WaitIfNeededReturns ==
    /\ []<>(\A c \in Calls : pc[c] # "limiterWait")
    /\ [][\A c \in Calls :
            (pc[c] = "limiterWait" /\ pc'[c] # pc[c]) =>
                /\ pc'[c] = "admitted"
                /\ nAdmit'[c] = nAdmit[c] + 1
                /\ ~Suspended(c)']_vars
    /\ [](\A c \in Calls : Suspended(c) <=> pc[c] = "limiterWait")

\* both calls were suspended and the one that arrived later was admitted
\* first: the earlier arrival is still suspended
OvertakenWitness ==
    /\ overtaken
    /\ \E c \in Calls :
         /\ pc[c] = "limiterWait"
         /\ waiters = <<c>>
         /\ \E d \in Calls \ {c} : pc[d] \in {"admitted", "inflight"}

(***************************************************************************)
(* Further properties of waitForTask                                       *)
(***************************************************************************)
\* the monitor has ended by giving up
GaveUp ==
    /\ monitor.pc = "threw"
    /\ monitor.result = Thrown(TimeoutError(monitor.maxWaitSeconds))

\* C26: waitForTask ends on every behaviour in which polls settle and time
\* advances; when every poll reported 'running' it ends by giving up; and it
\* gives up only right after a poll that reported 'running', with more than
\* maxWaitSeconds elapsed since it started.
MonitorTerminates ==
    /\ <>[](monitor.pc \in {"returned", "threw"})
    /\ []((AlwaysRunning /\ monitor.pc \in {"returned", "threw"}) => GaveUp)
    /\ [](GaveUp =>
            /\ monitor.polled # <<>>
            /\ ~monitor.polled[Len(monitor.polled)].threw
            /\ monitor.polled[Len(monitor.polled)].value # JNull
            /\ ~NotRunning(monitor.polled[Len(monitor.polled)].value)
            /\ monitor.now - monitor.startTime
                   > monitor.maxWaitSeconds * MsPerSecond)

\* the monitor gave up after three polls, the second of which was slow
MonitorTerminatesWitness ==
    /\ GaveUp
    /\ AlwaysRunning
    /\ monitor.maxWaitSeconds = 2
    /\ Len(monitor.polled) = 2
    /\ monitor.now - monitor.startTime = 3 * MsPerSecond

\* C27: a poll that failed is the last poll: the monitor has thrown the very
\* error client.get threw (an Authentication, Permission or Connection
\* error), without another request, and neither a snapshot nor the timeout
\* error takes its place.
FailedPollEndsMonitor ==
    \A i \in 1..Len(monitor.polled) :
        monitor.polled[i].threw =>
            /\ i = Len(monitor.polled)
            /\ Len(monitor.requests) = i
            /\ monitor.pc = "threw"
            /\ monitor.result = monitor.polled[i]
            /\ monitor.result.error.name \in
                   {"ProxmoxAuthenticationError", "ProxmoxPermissionError",
                    "ProxmoxConnectionError"}
            /\ ~GaveUp

\* the second poll ran out of retries on a timeout, after the wait had
\* already been exceeded
FailedPollWitness ==
    /\ Len(monitor.polled) = 2
    /\ ~monitor.polled[1].threw
    /\ monitor.polled[2].threw
    /\ monitor.result.error.name = "ProxmoxConnectionError"
    /\ monitor.result.error.context.originalError = FetchError("request-timeout").message
    /\ ElapsedExceeds(monitor.now, monitor.startTime, monitor.maxWaitSeconds)
    /\ monitor.pc = "threw"

(***************************************************************************)
(* Properties of retried requests                                          *)
(***************************************************************************)
\* C28: whatever the method and the body, a failure other than 401/403 is
\* retried while retries remain, every transport call of the logical call
\* carries the method, endpoint and body of the first one, and at most
\* retryAttempts + 1 of them are made: a POST, PUT or DELETE can reach the
\* remote API more than once.
MutationResent ==
    \A c \in Calls :
        /\ Len(sent[c]) = nFetch[c]
        /\ nFetch[c] <= config.retryAttempts + 1
        /\ \A i \in DOMAIN sent[c] :
              /\ sent[c][i] = sent[c][1]
              /\ sent[c][i] = FetchOptions(callArgs[c])
              /\ sent[c][i].method \in {"POST", "PUT", "DELETE"}
              /\ ("body" \in DOMAIN sent[c][i]) <=> callArgs[c].body # JUndefined
        /\ (last[c] \in Retryable /\ nDone[c] <= config.retryAttempts) =>
               pc[c] \notin Terminal
        /\ (pc[c] = "inflight" /\ nFetch[c] > 1) => last[c] \in Retryable

\* a POST with a body is on the wire for the second time after its first
\* transport call was answered 200 with a body that is not JSON
MutationResentWitness ==
    \E c \in Calls :
        /\ pc[c] = "inflight"
        /\ Len(sent[c]) = 2
        /\ sent[c][2].method = "POST"
        /\ "body" \in DOMAIN sent[c][2]
        /\ sent[c][2].body = JSONStringify(CommandBody)
        /\ last[c] = "badjson"

(***************************************************************************)
(* Properties of start-up                                                  *)
(***************************************************************************)
\* C29: an environment loadConfig rejects ends the process with exit code 1
\* before a client exists, before any request and before the stdio
\* transport is connected; with a valid environment the server is connected
\* after exactly one health check, whether it passed or failed, and the
\* process has not exited.
MalformedConfigExitsFirst ==
    /\ (loading.pc # "start" /\ ~configSchema(loading.env).ok) =>
           /\ loading.pc = "exited"
           /\ loading.exitCode = 1
           /\ loading.result.error.name = "ConfigurationError"
           /\ ~loading.client
           /\ loading.requests = <<>>
           /\ loading.health = "none"
           /\ ~loading.connected
           /\ toolCall = NotRun
    /\ loading.pc = "exited" => ~configSchema(loading.env).ok
    /\ loading.client => (loading.pc = "serving" /\ ~loading.result.threw)
    /\ loading.health # "none" <=> loading.connected
    /\ loading.connected =>
           /\ loading.client
           /\ loading.pc = "serving"
           /\ loading.exitCode = "none"
           /\ loading.requests = <<[method |-> "GET", endpoint |-> "/version"]>>

\* the server is connected although its health check failed
FailedHealthCheckWitness ==
    /\ loading.health = "failed"
    /\ loading.connected
    /\ loading.pc = "serving"
    /\ loading.env.retryAttempts = JStr(<<"0">>)

(***************************************************************************)
(* Properties of listTasks                                                 *)
(***************************************************************************)
\* C30: when the task-list request ends with the normalizer's no-content
\* result, listTasks returns the output that says no tasks were found.
NoContentListsNoTasks ==
    (toolCall.pc = "done" /\ toolCall.tasks = Returned(NoContent)) =>
        /\ ~toolCall.result.threw
        /\ toolCall.result.value =
               Content(<<"[list] **", "Tasks on Node ", toolCall.node, "**",
                         "\n\n", "No tasks found.\n">>)

\* what the code does instead: the call throws the TypeError of reading
\* 'length' of null, while an empty list yields the 'No tasks found.' output
NoContentListTasksThrows ==
    toolCall.pc = "done" =>
        /\ toolCall.tasks = Returned(NoContent) =>
               toolCall.result = Thrown(TypeErrorOfNull("length"))
        /\ toolCall.tasks = Returned(JArr(<<>>)) =>
               toolCall.result =
                   Returned(Content(<<"[list] **", "Tasks on Node ",
                                      toolCall.node, "**", "\n\n",
                                      "No tasks found.\n">>))

====
